---- MODULE Spec2Model ----
(***************************************************************************)
(* The wallpaper creator of src/app.js (class WallpaperCreator): the image *)
(* list, the selection, the canvas elements, the auto-fit settings and the *)
(* aspect-ratio-preserving layout engine (flow, masonry, proportional      *)
(* grid, aspect-grouped, organic), with its validator and grid fallback.   *)
(*                                                                         *)
(* Numbers.  JavaScript numbers are modelled as exact rationals <<n, d>>   *)
(* in lowest terms with d > 0.  Every quantity the engine computes is a    *)
(* quotient of integers, so the only difference from IEEE doubles is the   *)
(* rounding of the last bits (relative error about 1e-16), far below the   *)
(* tolerances (0.01, 0.05, ...) the code compares against.  Divisions by   *)
(* zero give the non-finite doubles, which follow the IEEE rules.          *)
(***************************************************************************)
EXTENDS Integers, Sequences, FiniteSets, TLC

(***************************************************************************)
(* Rational arithmetic                                                     *)
(***************************************************************************)
RECURSIVE GCD(_, _)
GCD(a, b) == IF b = 0 THEN a ELSE GCD(b, a % b)

IAbs(n) == IF n < 0 THEN -n ELSE n

Sgn(n) == IF n < 0 THEN -1 ELSE IF n > 0 THEN 1 ELSE 0

\* A number is <<n, d>> in lowest terms with d > 0; the non-finite doubles
\* are <<1, 0>> (Infinity), <<-1, 0>> (-Infinity) and <<0, 0>> (NaN).
Rat(n, d) ==
    IF d = 0 THEN <<Sgn(n), 0>>
    ELSE LET s == IF d < 0 THEN -1 ELSE 1
             g == GCD(IAbs(n), IAbs(d))
         IN  <<(s * n) \div g, (s * d) \div g>>

R(n) == <<n, 1>>

NaN == <<0, 0>>
IsNaN(a) == a = NaN
IsFinite(a) == a[2] # 0

RAdd(a, b) ==
    IF a[2] = 0 /\ b[2] = 0
    THEN IF a = b THEN a ELSE NaN
    ELSE Rat(a[1] * b[2] + b[1] * a[2], a[2] * b[2])
RSub(a, b) ==
    IF a[2] = 0 /\ b[2] = 0
    THEN IF a[1] = -b[1] THEN a ELSE NaN
    ELSE Rat(a[1] * b[2] - b[1] * a[2], a[2] * b[2])
RMul(a, b) ==
    IF a[2] = 0 \/ b[2] = 0
    THEN <<Sgn(a[1]) * Sgn(b[1]), 0>>
    ELSE LET g1 == GCD(IAbs(a[1]), b[2])
             g2 == GCD(IAbs(b[1]), a[2])
         IN  Rat((a[1] \div g1) * (b[1] \div g2), (a[2] \div g2) * (b[2] \div g1))
RDiv(a, b) ==
    IF a[2] = 0 /\ b[2] = 0 THEN NaN
    ELSE RMul(a, IF b[1] < 0 THEN <<-b[2], -b[1]>> ELSE <<b[2], b[1]>>)
RLe(a, b) ==
    IF IsNaN(a) \/ IsNaN(b) THEN FALSE
    ELSE IF a[2] = 0 /\ b[2] = 0 THEN a[1] <= b[1]
    ELSE a[1] * b[2] <= b[1] * a[2]
RLt(a, b) ==
    IF IsNaN(a) \/ IsNaN(b) THEN FALSE
    ELSE IF a[2] = 0 /\ b[2] = 0 THEN a[1] < b[1]
    ELSE a[1] * b[2] < b[1] * a[2]
RAbs(a) == <<IAbs(a[1]), a[2]>>
RMin(a, b) == IF IsNaN(a) \/ IsNaN(b) THEN NaN ELSE IF RLe(a, b) THEN a ELSE b
RMax(a, b) == IF IsNaN(a) \/ IsNaN(b) THEN NaN ELSE IF RLe(b, a) THEN a ELSE b

\* Math.ceil(Math.sqrt(n)) for an integer n >= 0
RECURSIVE CeilSqrtFrom(_, _)
CeilSqrtFrom(n, c) == IF c * c >= n THEN c ELSE CeilSqrtFrom(n, c + 1)
CeilSqrt(n) == CeilSqrtFrom(n, 0)

\* Math.ceil(a / b) for integers a >= 0, b > 0
CeilDiv(a, b) == (a + b - 1) \div b

(***************************************************************************)
(* Program constants                                                       *)
(***************************************************************************)
canvasWidth == 1920
canvasHeight == 1080

aspectRatioCategories ==
    << [name |-> "Square",     ratio |-> <<1, 1>>,     tolerance |-> <<1, 20>>, group |-> "square"],
       [name |-> "Portrait",   ratio |-> <<3, 4>>,     tolerance |-> <<3, 20>>, group |-> "portrait"],
       [name |-> "Landscape",  ratio |-> <<133, 100>>, tolerance |-> <<3, 20>>, group |-> "landscape"],
       [name |-> "Wide",       ratio |-> <<89, 50>>,   tolerance |-> <<1, 5>>,  group |-> "wide"],
       [name |-> "Panoramic",  ratio |-> <<5, 2>>,     tolerance |-> <<1, 2>>,  group |-> "panoramic"],
       [name |-> "Ultra-wide", ratio |-> <<7, 2>>,     tolerance |-> <<1, 1>>,  group |-> "ultrawide"] >>

\* const tolerance = 0.01 of validateAspectRatioPreservation
validationTolerance == <<1, 100>>

DefaultSettings ==
    [ spacing |-> 10, margin |-> 20, allowStacking |-> TRUE, minImageSize |-> 100,
      maxScaleDown |-> <<3, 10>>, prioritizeLargeImages |-> FALSE ]

(***************************************************************************)
(* Aspect ratio preservation methods                                       *)
(* An image is [id, originalWidth, originalHeight]; s is autoFitSettings.  *)
(***************************************************************************)
calculateAspectRatio(image) == Rat(image.originalWidth, image.originalHeight)

RECURSIVE categorizeFrom(_, _)
categorizeFrom(ratio, k) ==
    IF k > Len(aspectRatioCategories)
    THEN IF RLt(R(1), ratio)
         THEN [name |-> "Landscape", group |-> "landscape"]
         ELSE [name |-> "Portrait", group |-> "portrait"]
    ELSE IF RLe(RAbs(RSub(ratio, aspectRatioCategories[k].ratio)),
                aspectRatioCategories[k].tolerance)
         THEN aspectRatioCategories[k]
         ELSE categorizeFrom(ratio, k + 1)

\* variant: the last matching category of the catalog wins
categorizeLastMatch(image) ==
    LET ratio == calculateAspectRatio(image)
        m == {k \in 1..Len(aspectRatioCategories) :
                 RLe(RAbs(RSub(ratio, aspectRatioCategories[k].ratio)),
                     aspectRatioCategories[k].tolerance)}
    IN  IF m = {}
        THEN IF RLt(R(1), ratio)
             THEN [name |-> "Landscape", group |-> "landscape"]
             ELSE [name |-> "Portrait", group |-> "portrait"]
        ELSE aspectRatioCategories[CHOOSE k \in m : \A j \in m : j <= k]

categorizeByAspectRatio(image) == categorizeFrom(calculateAspectRatio(image), 1)

\* groups: the object's keys in insertion order, each with its array
GroupIndex(groups, name) ==
    IF \E k \in 1..Len(groups) : groups[k].group = name
    THEN CHOOSE k \in 1..Len(groups) : groups[k].group = name
    ELSE 0

\* variant: an image goes to the front of its group's array
groupPushFront(groups, image) ==
    LET g == categorizeByAspectRatio(image).group
        k == GroupIndex(groups, g)
    IN  IF k = 0
        THEN Append(groups, [group |-> g, images |-> <<image>>])
        ELSE [groups EXCEPT ![k].images = <<image>> \o @]

groupPush(groups, image) ==
    LET g == categorizeByAspectRatio(image).group
        k == GroupIndex(groups, g)
    IN  IF k = 0
        THEN Append(groups, [group |-> g, images |-> <<image>>])
        ELSE [groups EXCEPT ![k].images = Append(@, image)]

RECURSIVE groupImagesFrom(_, _, _)
groupImagesFrom(images, i, groups) ==
    IF i > Len(images) THEN groups
    ELSE groupImagesFrom(images, i + 1, groupPush(groups, images[i]))

groupImagesByAspectRatio(images) == groupImagesFrom(images, 1, <<>>)

validateAspectRatioPreservation(originalImage, proposedDimensions) ==
    LET originalRatio == calculateAspectRatio(originalImage)
        proposedRatio == RDiv(proposedDimensions.width, proposedDimensions.height)
    IN  RLe(RAbs(RSub(originalRatio, proposedRatio)), validationTolerance)

\* variant: the minimum-size floor raises each axis on its own
scaleImageFloorPerAxis(originalImage, maxWidth, maxHeight, s) ==
    LET aspectRatio == calculateAspectRatio(originalImage)
        byHeight == RLt(aspectRatio, RDiv(maxWidth, maxHeight))
        width1  == IF byHeight THEN RMul(maxHeight, aspectRatio) ELSE maxWidth
        height1 == IF byHeight THEN maxHeight ELSE RDiv(maxWidth, aspectRatio)
    IN  [width |-> RMax(R(s.minImageSize), width1), height |-> RMax(R(s.minImageSize), height1)]

scaleImagePreservingRatio(originalImage, maxWidth, maxHeight, s) ==
    LET aspectRatio == calculateAspectRatio(originalImage)
        byHeight == RLt(aspectRatio, RDiv(maxWidth, maxHeight))
        width1  == IF byHeight THEN RMul(maxHeight, aspectRatio) ELSE maxWidth
        height1 == IF byHeight THEN maxHeight ELSE RDiv(maxWidth, aspectRatio)
        minSize == R(s.minImageSize)
    IN  IF RLt(width1, minSize) \/ RLt(height1, minSize)
        THEN IF RLt(width1, height1)
             THEN [width |-> minSize, height |-> RDiv(minSize, aspectRatio)]
             ELSE [width |-> RMul(minSize, aspectRatio), height |-> minSize]
        ELSE [width |-> width1, height |-> height1]

(***************************************************************************)
(* Natural layout algorithms.  A position is                               *)
(* [imageData, x, y, width, height]; the flow layout's positions also keep *)
(* finalWidth and finalHeight, the scaled size before the minimum-size     *)
(* floor (locals of finalizeNaturalRow), for the properties that speak of  *)
(* the floor engaging.                                                     *)
(***************************************************************************)
area(image) == image.originalWidth * image.originalHeight

\* Array.prototype.sort is stable: an image goes after every image that is
\* at least as large
insertByArea(sorted, image) ==
    LET k == Cardinality({j \in 1..Len(sorted) : area(sorted[j]) >= area(image)})
    IN  SubSeq(sorted, 1, k) \o <<image>> \o SubSeq(sorted, k + 1, Len(sorted))

RECURSIVE sortByAreaFrom(_, _, _)
sortByAreaFrom(images, i, sorted) ==
    IF i > Len(images) THEN sorted
    ELSE sortByAreaFrom(images, i + 1, insertByArea(sorted, images[i]))

sortedImagesOf(images, s) ==
    IF s.prioritizeLargeImages THEN sortByAreaFrom(images, 1, <<>>) ELSE images

RECURSIVE sumNaturalWidth(_, _)
sumNaturalWidth(rowImages, k) ==
    IF k = 0 THEN R(0)
    ELSE RAdd(sumNaturalWidth(rowImages, k - 1), rowImages[k].naturalWidth)

\* variant: the row item's height follows its width, whatever its ratio
rowPositionSquare(item, currentX, rowY, finalScaleFactor, s) ==
    LET finalWidth == RMul(item.naturalWidth, finalScaleFactor)
    IN  [ imageData |-> item.image,
          x |-> currentX,
          y |-> rowY,
          width |-> RMax(R(s.minImageSize), finalWidth),
          height |-> RMax(R(s.minImageSize), finalWidth),
          finalWidth |-> finalWidth,
          finalHeight |-> finalWidth ]

\* the position finalizeNaturalRow pushes for one item of the row
rowPosition(item, currentX, rowY, finalScaleFactor, s) ==
    LET finalWidth == RMul(item.naturalWidth, finalScaleFactor)
        finalHeight == RMul(item.naturalHeight, finalScaleFactor)
    IN  [ imageData |-> item.image,
          x |-> currentX,
          y |-> rowY,
          width |-> RMax(R(s.minImageSize), finalWidth),
          height |-> RMax(R(s.minImageSize), finalHeight),
          finalWidth |-> finalWidth,
          finalHeight |-> finalHeight ]

RECURSIVE rowPositions(_, _, _, _, _, _)
rowPositions(rowImages, k, currentX, rowY, finalScaleFactor, s) ==
    IF k > Len(rowImages) THEN <<>>
    ELSE LET pos == rowPosition(rowImages[k], currentX, rowY, finalScaleFactor, s)
         IN  <<pos>> \o rowPositions(rowImages, k + 1,
                                     RAdd(currentX, RAdd(pos.finalWidth, R(s.spacing))),
                                     rowY, finalScaleFactor, s)

rowScaleFactor(rowImages, availableWidth, s) ==
    LET totalNaturalWidth == sumNaturalWidth(rowImages, Len(rowImages))
        totalSpacing == (Len(rowImages) - 1) * s.spacing
        availableImageWidth == RSub(availableWidth, R(totalSpacing))
        scaleFactor == RMin(R(1), RDiv(availableImageWidth, totalNaturalWidth))
    IN  RMax(s.maxScaleDown, scaleFactor)

\* the positions finalizeNaturalRow pushes
finalizeNaturalRow(rowImages, rowY, availableWidth, s) ==
    IF Len(rowImages) = 0 THEN <<>>
    ELSE rowPositions(rowImages, 1, R(s.margin), rowY,
                      rowScaleFactor(rowImages, availableWidth, s), s)

\* The state of applyNaturalFlowLayout's loop is [positions, currentRowY,
\* currentRowX, currentRowHeight, rowImages]; rows (the rowImages arrays handed
\* to finalizeNaturalRow) and breaks (how often the row-break branch was
\* taken) record the run.
flowStart(s) ==
    [ positions |-> <<>>, currentRowY |-> R(s.margin), currentRowX |-> R(s.margin),
      currentRowHeight |-> R(0), rowImages |-> <<>>, rows |-> <<>>, breaks |-> 0 ]

\* the natural size of an image: at most 30% of the available width
naturalItem(image, availableWidth) ==
    LET imageWidth == RMin(R(image.originalWidth), RMul(availableWidth, <<3, 10>>))
    IN  [ image |-> image, aspectRatio |-> calculateAspectRatio(image),
          naturalWidth |-> imageWidth,
          naturalHeight |-> RDiv(imageWidth, calculateAspectRatio(image)) ]

\* variant: a new row is started and the old one is not finalized
flowBreakRowDiscard(st, availableWidth, s) ==
    [ st EXCEPT !.currentRowY = RAdd(@, RAdd(st.currentRowHeight, R(s.spacing))),
                !.currentRowX = R(s.margin),
                !.currentRowHeight = R(0),
                !.rowImages = <<>>,
                !.breaks = @ + 1 ]

\* the row-break branch: the row is finalized and a new one started
flowBreakRow(st, availableWidth, s) ==
    [ positions |-> st.positions \o
          finalizeNaturalRow(st.rowImages, st.currentRowY, availableWidth, s),
      currentRowY |-> RAdd(st.currentRowY, RAdd(st.currentRowHeight, R(s.spacing))),
      currentRowX |-> R(s.margin),
      currentRowHeight |-> R(0),
      rowImages |-> <<>>,
      rows |-> Append(st.rows, st.rowImages),
      breaks |-> st.breaks + 1 ]

\* the image joins the current row
flowPush(st, item, s) ==
    [ st EXCEPT
        !.rowImages = Append(@, [ image |-> item.image, aspectRatio |-> item.aspectRatio,
                                  naturalWidth |-> item.naturalWidth,
                                  naturalHeight |-> item.naturalHeight,
                                  x |-> st.currentRowX, y |-> st.currentRowY ]),
        !.currentRowX = RAdd(@, RAdd(item.naturalWidth, R(s.spacing))),
        !.currentRowHeight = RMax(@, item.naturalHeight) ]

\* one iteration of the loop
\* variant: the row is never broken
flowStepNoBreak(st, image, availableWidth, s) ==
    flowPush(st, naturalItem(image, availableWidth), s)

flowStep(st, image, availableWidth, s) ==
    LET item == naturalItem(image, availableWidth)
        break == /\ RLt(RAdd(availableWidth, R(s.margin)),
                        RAdd(st.currentRowX, item.naturalWidth))
                 /\ Len(st.rowImages) > 0
    IN  flowPush(IF break THEN flowBreakRow(st, availableWidth, s) ELSE st, item, s)

RECURSIVE flowLoop(_, _, _, _, _)
flowLoop(sortedImages, i, st, availableWidth, s) ==
    IF i > Len(sortedImages) THEN st
    ELSE flowLoop(sortedImages, i + 1, flowStep(st, sortedImages[i], availableWidth, s),
                  availableWidth, s)

\* the last row is finalized
flowFinish(st, availableWidth, s) ==
    IF Len(st.rowImages) > 0
    THEN [ st EXCEPT
             !.positions = @ \o finalizeNaturalRow(st.rowImages, st.currentRowY,
                                                   availableWidth, s),
             !.rows = Append(@, st.rowImages) ]
    ELSE st

flowRun(images, s) ==
    flowFinish(flowLoop(sortedImagesOf(images, s), 1, flowStart(s),
                        R(canvasWidth - 2 * s.margin), s),
               R(canvasWidth - 2 * s.margin), s)

applyNaturalFlowLayout(images, s) == flowRun(images, s).positions

\* variant: every image goes to the first column
alwaysFirstColumn(columnHeights) == 1

\* the scan for the shortest column: a later column replaces the candidate
\* only when it is strictly lower
RECURSIVE shortestColumnFrom(_, _, _)
shortestColumnFrom(columnHeights, i, shortestColumn) ==
    IF i > Len(columnHeights) THEN shortestColumn
    ELSE shortestColumnFrom(columnHeights, i + 1,
                            IF RLt(columnHeights[i], columnHeights[shortestColumn])
                            THEN i ELSE shortestColumn)

\* the lowest index among the columns of minimal height
shortestColumnOf(columnHeights) == shortestColumnFrom(columnHeights, 2, 1)

masonryColumnCount(n) ==
    LET c == CeilSqrt(n)
        m == IF c < 5 THEN c ELSE 5
    IN  IF m > 2 THEN m ELSE 2

\* st is [positions, columnHeights]; columns are 1..columnCount, the code's
\* column index is c - 1
masonryStep(st, image, columnWidth, s) ==
    LET c == shortestColumnOf(st.columnHeights)
        scaledDimensions == scaleImagePreservingRatio(image, columnWidth,
                                                      RMul(columnWidth, R(2)), s)
        x == RAdd(R(s.margin), RMul(R(c - 1), RAdd(columnWidth, R(s.spacing))))
        y == st.columnHeights[c]
    IN  [ positions |-> Append(st.positions,
                               [ imageData |-> image, x |-> x, y |-> y,
                                 width |-> scaledDimensions.width,
                                 height |-> scaledDimensions.height ]),
          columnHeights |-> [st.columnHeights EXCEPT
                               ![c] = RAdd(@, RAdd(scaledDimensions.height, R(s.spacing)))] ]

RECURSIVE masonryLoop(_, _, _, _, _)
masonryLoop(sortedImages, i, st, columnWidth, s) ==
    IF i > Len(sortedImages) THEN st
    ELSE masonryLoop(sortedImages, i + 1, masonryStep(st, sortedImages[i], columnWidth, s),
                     columnWidth, s)

masonryRun(images, s) ==
    LET availableWidth == canvasWidth - 2 * s.margin
        columnCount == masonryColumnCount(Len(images))
        columnWidth == Rat(availableWidth - (columnCount - 1) * s.spacing, columnCount)
        st0 == [ positions |-> <<>>, columnHeights |-> [c \in 1..columnCount |-> R(s.margin)] ]
    IN  masonryLoop(sortedImagesOf(images, s), 1, st0, columnWidth, s)

applyMasonryLayout(images, s) == masonryRun(images, s).positions

gridCols(imageCount) == CeilSqrt(imageCount)
gridRows(imageCount) == CeilDiv(imageCount, gridCols(imageCount))
baseGridWidth(imageCount, s) ==
    Rat(canvasWidth - 2 * s.margin - (gridCols(imageCount) - 1) * s.spacing, gridCols(imageCount))
baseGridHeight(imageCount, s) ==
    Rat(canvasHeight - 2 * s.margin - (gridRows(imageCount) - 1) * s.spacing, gridRows(imageCount))

\* variant: the rectangle sits in the top left corner of its cell
gridPositionCorner(images, i, s) ==
    LET cols == gridCols(Len(images))
        row == i \div cols
        col == i % cols
        cellW == baseGridWidth(Len(images), s)
        cellH == baseGridHeight(Len(images), s)
        scaledDimensions == scaleImagePreservingRatio(images[i + 1], cellW, cellH, s)
    IN  [ imageData |-> images[i + 1],
          x |-> RAdd(R(s.margin), RMul(R(col), RAdd(cellW, R(s.spacing)))),
          y |-> RAdd(R(s.margin), RMul(R(row), RAdd(cellH, R(s.spacing)))),
          width |-> scaledDimensions.width,
          height |-> scaledDimensions.height ]

\* the position of images[i + 1], the code's index i
gridPosition(images, i, s) ==
    LET cols == gridCols(Len(images))
        row == i \div cols
        col == i % cols
        cellW == baseGridWidth(Len(images), s)
        cellH == baseGridHeight(Len(images), s)
        gridX == RAdd(R(s.margin), RMul(R(col), RAdd(cellW, R(s.spacing))))
        gridY == RAdd(R(s.margin), RMul(R(row), RAdd(cellH, R(s.spacing))))
        scaledDimensions == scaleImagePreservingRatio(images[i + 1], cellW, cellH, s)
    IN  [ imageData |-> images[i + 1],
          x |-> RAdd(gridX, RDiv(RSub(cellW, scaledDimensions.width), R(2))),
          y |-> RAdd(gridY, RDiv(RSub(cellH, scaledDimensions.height), R(2))),
          width |-> scaledDimensions.width,
          height |-> scaledDimensions.height ]

\* variant: an empty list yields one empty cell
applyGridPadded(images, s) ==
    IF Len(images) = 0
    THEN << [ imageData |-> [id |-> 0, originalWidth |-> 1, originalHeight |-> 1],
              x |-> R(s.margin), y |-> R(s.margin), width |-> R(0), height |-> R(0) ] >>
    ELSE [k \in 1..Len(images) |-> gridPosition(images, k - 1, s)]

\* for an empty list cols is 0 and rows and the cell sizes are not finite, but
\* the loop body, the only place that uses them, does not run
applyProportionalGridLayout(images, s) ==
    [k \in 1..Len(images) |-> gridPosition(images, k - 1, s)]

RECURSIVE minOfY(_, _)
minOfY(positions, k) ==
    IF k = 1 THEN positions[1].y ELSE RMin(minOfY(positions, k - 1), positions[k].y)

RECURSIVE maxOfBottom(_, _)
maxOfBottom(positions, k) ==
    IF k = 1 THEN RAdd(positions[1].y, positions[1].height)
    ELSE RMax(maxOfBottom(positions, k - 1), RAdd(positions[k].y, positions[k].height))

\* variant: a single spacing between groups
placeGroupSingleSpacing(st, groupPositions, s) ==
    [ positions |-> st.positions \o
          [k \in 1..Len(groupPositions) |->
              [groupPositions[k] EXCEPT
                  !.y = RAdd(RSub(@, minOfY(groupPositions, Len(groupPositions))),
                             st.currentY)]],
      currentY |-> RAdd(st.currentY,
                        RAdd(RSub(maxOfBottom(groupPositions, Len(groupPositions)),
                                  minOfY(groupPositions, Len(groupPositions))),
                             R(s.spacing))) ]

\* st is [positions, currentY]; the group's positions are moved below the
\* groups placed before
placeGroup(st, groupPositions, s) ==
    [ positions |-> st.positions \o
          [k \in 1..Len(groupPositions) |->
              [groupPositions[k] EXCEPT
                  !.y = RAdd(RSub(@, minOfY(groupPositions, Len(groupPositions))),
                             st.currentY)]],
      currentY |-> RAdd(st.currentY,
                        RAdd(RSub(maxOfBottom(groupPositions, Len(groupPositions)),
                                  minOfY(groupPositions, Len(groupPositions))),
                             R(s.spacing * 2))) ]

groupedStep(st, groupImages, s) ==
    placeGroup(st, applyNaturalFlowLayout(groupImages, s), s)

RECURSIVE groupedLoop(_, _, _, _)
groupedLoop(groups, g, st, s) ==
    IF g > Len(groups) THEN st
    ELSE groupedLoop(groups, g + 1, groupedStep(st, groups[g].images, s), s)

applyAspectGroupedLayout(images, s) ==
    groupedLoop(groupImagesByAspectRatio(images), 1,
                [positions |-> <<>>, currentY |-> R(s.margin)], s).positions

clamp(lo, v, hi) == RMax(lo, RMin(v, hi))

\* variant: the offset ranges over the whole spacing
organicPositionFullSpacing(pos, index, rnd, s) ==
    IF s.allowStacking /\ index > 0
    THEN LET maxOffset == R(s.spacing)
             x1 == RAdd(pos.x, RMul(RSub(rnd[index][1], <<1, 2>>), maxOffset))
             y1 == RAdd(pos.y, RMul(RSub(rnd[index][2], <<1, 2>>), maxOffset))
         IN  [ pos EXCEPT
                 !.x = clamp(R(s.margin), x1, RSub(R(canvasWidth - s.margin), pos.width)),
                 !.y = clamp(R(s.margin), y1, RSub(R(canvasHeight - s.margin), pos.height)) ]
    ELSE pos

\* rnd[index] is the pair of Math.random() results drawn for one position
organicPosition(pos, index, rnd, s) ==
    IF s.allowStacking /\ index > 0
    THEN LET maxOffset == Rat(s.spacing, 2)
             x1 == RAdd(pos.x, RMul(RSub(rnd[index][1], <<1, 2>>), maxOffset))
             y1 == RAdd(pos.y, RMul(RSub(rnd[index][2], <<1, 2>>), maxOffset))
         IN  [ pos EXCEPT
                 !.x = clamp(R(s.margin), x1, RSub(R(canvasWidth - s.margin), pos.width)),
                 !.y = clamp(R(s.margin), y1, RSub(R(canvasHeight - s.margin), pos.height)) ]
    ELSE pos

applyOrganicStackLayout(images, s, rnd) ==
    LET masonryPositions == applyMasonryLayout(images, s)
    IN  [k \in 1..Len(masonryPositions) |-> organicPosition(masonryPositions[k], k - 1, rnd, s)]

(***************************************************************************)
(* The orchestrator: applyNaturalAutoFitLayout's dispatch, validation and  *)
(* fallback, as a function of the current layout, the selected images, the *)
(* settings and the random numbers drawn.  calls lists the layout          *)
(* algorithms it invoked, in order.                                        *)
(***************************************************************************)
LayoutNames == {"natural-flow", "masonry", "proportional-grid", "aspect-grouped", "organic"}

\* variant: the organic name is dispatched to the flow layout
layoutPositionsOrganicAsFlow(layout, images, s, rnd) ==
    CASE layout = "masonry"           -> applyMasonryLayout(images, s)
      [] layout = "proportional-grid" -> applyProportionalGridLayout(images, s)
      [] layout = "aspect-grouped"    -> applyAspectGroupedLayout(images, s)
      [] OTHER                        -> applyNaturalFlowLayout(images, s)

\* variant: the images are sorted in the array the caller passed
imagesSortedInPlace(images, s) == sortedImagesOf(images, s)

\* The array passed to applyNaturalFlowLayout or applyMasonryLayout, as it is
\* when the method returns: sort is called on a copy ([...images]), and
\* nothing else writes to the array or to its image objects.
imagesAfterSort(images, s) == images

\* The array passed to the layout of that name, as it is after the call.  The
\* grid layout only reads it; the grouped layout passes arrays of its own
\* (the groups) to the flow layout; the organic layout passes it to masonry.
imagesAfterLayout(layout, images, s) ==
    CASE layout = "proportional-grid" -> images
      [] layout = "aspect-grouped"    -> images
      [] OTHER                        -> imagesAfterSort(images, s)

layoutPositions(layout, images, s, rnd) ==
    CASE layout = "natural-flow"      -> applyNaturalFlowLayout(images, s)
      [] layout = "masonry"           -> applyMasonryLayout(images, s)
      [] layout = "proportional-grid" -> applyProportionalGridLayout(images, s)
      [] layout = "aspect-grouped"    -> applyAspectGroupedLayout(images, s)
      [] layout = "organic"           -> applyOrganicStackLayout(images, s, rnd)
      [] OTHER                        -> applyNaturalFlowLayout(images, s)

validationResults(positions) ==
    [k \in 1..Len(positions) |->
        validateAspectRatioPreservation(positions[k].imageData,
            [width |-> positions[k].width, height |-> positions[k].height])]

everyResult(results) == \A k \in 1..Len(results) : results[k]

\* variant: the positions are applied whatever the validation says
autoFitOutcomeNoFallback(layout, images, s, rnd) ==
    LET positions == layoutPositions(layout, images, s, rnd)
    IN  [ positions |-> positions, applied |-> positions, calls |-> <<layout>> ]

\* variant: the fallback is the masonry layout
autoFitOutcomeMasonryFallback(layout, images, s, rnd) ==
    LET positions == layoutPositions(layout, images, s, rnd)
    IN  IF everyResult(validationResults(positions))
        THEN [ positions |-> positions, applied |-> positions, calls |-> <<layout>> ]
        ELSE [ positions |-> positions,
               applied |-> applyMasonryLayout(images, s),
               calls |-> <<layout, "masonry">> ]

\* what is applied, given the positions of the layout
validatedOutcome(layout, positions, images, s) ==
    IF everyResult(validationResults(positions))
    THEN [ positions |-> positions, applied |-> positions, calls |-> <<layout>> ]
    ELSE [ positions |-> positions,
           applied |-> applyProportionalGridLayout(images, s),
           calls |-> <<layout, "proportional-grid">> ]

autoFitOutcome(layout, images, s, rnd) ==
    validatedOutcome(layout, layoutPositions(layout, images, s, rnd), images, s)

RECURSIVE SelectSeq2(_, _, _)
\* Array.prototype.filter with a predicate given as the set of kept indices
SelectSeq2(seq, keep, k) ==
    IF k > Len(seq) THEN <<>>
    ELSE (IF k \in keep THEN <<seq[k]>> ELSE <<>>) \o SelectSeq2(seq, keep, k + 1)

filterKeep(seq, keep) == SelectSeq2(seq, keep, 1)

\* where the object at index i of seq is after the filter: its new index, or
\* -1 when the filter dropped it (the object lives on outside the array);
\* 0 (null) and -1 stay
indexAfterFilter(i, keep) ==
    IF i <= 0 THEN i
    ELSE IF i \in keep THEN Cardinality({k \in keep : k <= i}) ELSE -1

notSelectedImageElements(els, selected) ==
    {k \in 1..Len(els) : els[k].type # "image" \/ els[k].imageId \notin selected}

positionElement(pos, index, s) ==
    [ type |-> "image", imageId |-> pos.imageData.id,
      x |-> pos.x, y |-> pos.y, width |-> pos.width, height |-> pos.height,
      imageData |-> pos.imageData,
      zIndex |-> IF s.allowStacking THEN index ELSE 0 ]

\* variant: the elements of the selected images are not removed first
applyPositionsToCanvasAccumulating(els, selected, positions, s) ==
    els \o [k \in 1..Len(positions) |-> positionElement(positions[k], k - 1, s)]

\* the elements array after applyPositionsToCanvas
applyPositionsToCanvas(els, selected, positions, s) ==
    filterKeep(els, notSelectedImageElements(els, selected))
    \o [k \in 1..Len(positions) |-> positionElement(positions[k], k - 1, s)]

selectedImageDataOf(imgs, selected) ==
    filterKeep(imgs, {k \in 1..Len(imgs) : imgs[k].id \in selected})

\* the element addImageToCanvas creates (maxSize = 300)
addedElement(imageData) ==
    LET aspectRatio == calculateAspectRatio(imageData)
        maxSize == R(300)
        width1 == RMin(R(imageData.originalWidth), maxSize)
        height1 == RDiv(width1, aspectRatio)
        tooHigh == RLt(maxSize, height1)
    IN  [ type |-> "image", imageId |-> imageData.id,
          x |-> R(100), y |-> R(100),
          width |-> IF tooHigh THEN RMul(maxSize, aspectRatio) ELSE width1,
          height |-> IF tooHigh THEN maxSize ELSE height1,
          imageData |-> imageData ]

\* the element bulkAddToCanvas creates for selectedImageData[index]
bulkAddedElement(imageData, index) ==
    LET aspectRatio == calculateAspectRatio(imageData)
        width == R(120)
    IN  [ type |-> "image", imageId |-> imageData.id,
          x |-> R(100 + (index % 3) * 150),
          y |-> R(100 + (index \div 3) * 150),
          width |-> width,
          height |-> RDiv(width, aspectRatio),
          imageData |-> imageData ]

isPointInElement(x, y, element) ==
    IF element.type = "image"
    THEN /\ RLe(element.x, x) /\ RLe(x, RAdd(element.x, element.width))
         /\ RLe(element.y, y) /\ RLe(y, RAdd(element.y, element.height))
    ELSE FALSE

\* the index of the topmost element under the point, 0 when there is none
getElementAtPosition(els, x, y) ==
    LET hits == {k \in 1..Len(els) : isPointInElement(x, y, els[k])}
    IN  IF hits = {} THEN 0 ELSE CHOOSE k \in hits : \A j \in hits : j <= k

(***************************************************************************)
(* Bounds and input sets of the model                                      *)
(***************************************************************************)
MaxLoads == 2        \* image loads (currentImageId never exceeds it)
MaxHistory == 2      \* history snapshots in Spec (bounds the operations that save one)
MaxSnapshots == 3    \* history snapshots in the other specifications
MaxTimers == 1       \* pending setTimeout callbacks

\* intrinsic sizes of the uploaded images: wide; tall and thin
LoadDims == {<<1600, 900>>, <<50, 500>>}

SpacingValues == {10}
MarginValues == {20}
MinSizeValues == {100, 200}
MaxScaleValues == {<<3, 10>>}
StackingValues == {TRUE}
PrioritizeValues == BOOLEAN
\* results of Math.random(), which lie in [0, 1)
RandomValues == {<<0, 1>>, <<99, 100>>}
\* canvas points of the mouse events: where the button goes down, where the
\* pointer is moved to
MouseDownPoints == {<<150, 150>>}
MouseMovePoints == {<<400, 300>>}

(***************************************************************************)
(* State                                                                   *)
(***************************************************************************)
VARIABLES
    images,            \* this.images, in upload order
    selectedImages,    \* this.selectedImages, a set of image ids
    currentImageId,    \* this.currentImageId
    elements,          \* this.elements
    selectedElement,   \* index in elements of this.selectedElement, 0 for null,
                       \* -1 for an element object no longer in the array
    isDragging,        \* this.isDragging
    dragOffset,        \* this.dragOffset, <<x, y>>
    historyLength,     \* this.history.length
    historyIndex,      \* this.historyIndex
    currentLayout,     \* this.currentLayout, "null" when unset
    autoFitSettings,   \* this.autoFitSettings (the fields the layouts read)
    timers,            \* setTimeout callbacks not yet run, oldest first
    lastRun            \* what applyNaturalAutoFitLayout read, computed and applied,
                       \* when the step just taken ran it past its guard; NoRun
                       \* after every other step

vars == << images, selectedImages, currentImageId, elements, selectedElement, isDragging,
           dragOffset, historyLength, historyIndex, currentLayout, autoFitSettings,
           timers, lastRun >>

NoRun == [ layout |-> "none", input |-> <<>>, settings |-> DefaultSettings,
           positions |-> <<>>, applied |-> <<>>, calls |-> <<>>, inputAfter |-> <<>> ]

\* the state the constructor leaves (it ends with one saveState)
Init ==
    /\ images = <<>>
    /\ selectedImages = {}
    /\ currentImageId = 0
    /\ elements = <<>>
    /\ selectedElement = 0
    /\ isDragging = FALSE
    /\ dragOffset = <<R(0), R(0)>>
    /\ historyLength = 1
    /\ historyIndex = 0
    /\ currentLayout = "null"
    /\ autoFitSettings = DefaultSettings
    /\ timers = <<>>
    /\ lastRun = NoRun

imageIds == {images[k].id : k \in 1..Len(images)}

\* saveState: history = history.slice(0, historyIndex + 1), push, historyIndex++
saveState ==
    /\ historyIndex + 2 <= MaxSnapshots
    /\ historyLength' = historyIndex + 2
    /\ historyIndex' = historyIndex + 1

(***************************************************************************)
(* Image management                                                        *)
(***************************************************************************)
\* img.onload of loadImage, for a decoded image of size w x h
LoadImage(w, h) ==
    /\ currentImageId < MaxLoads
    /\ currentImageId' = currentImageId + 1
    /\ images' = Append(images, [id |-> currentImageId + 1,
                                 originalWidth |-> w, originalHeight |-> h])
    /\ UNCHANGED << selectedImages, elements, selectedElement, isDragging, dragOffset,
                    historyLength, historyIndex, currentLayout, autoFitSettings,
                    timers >>
    /\ lastRun' = NoRun

SelectAllImages ==
    /\ selectedImages' = imageIds
    /\ UNCHANGED << images, currentImageId, elements, selectedElement, isDragging, dragOffset,
                    historyLength, historyIndex, currentLayout, autoFitSettings,
                    timers >>
    /\ lastRun' = NoRun

SelectNoImages ==
    /\ selectedImages' = {}
    /\ UNCHANGED << images, currentImageId, elements, selectedElement, isDragging, dragOffset,
                    historyLength, historyIndex, currentLayout, autoFitSettings,
                    timers >>
    /\ lastRun' = NoRun

\* a thumbnail click with ctrl/meta, or without it while the selection is not empty
ToggleImageSelection(imageId) ==
    /\ imageId \in imageIds
    /\ selectedImages' = IF imageId \in selectedImages
                         THEN selectedImages \ {imageId}
                         ELSE selectedImages \cup {imageId}
    /\ UNCHANGED << images, currentImageId, elements, selectedElement, isDragging, dragOffset,
                    historyLength, historyIndex, currentLayout, autoFitSettings,
                    timers >>
    /\ lastRun' = NoRun

\* a plain thumbnail click while nothing is selected: addImageToCanvas
AddImageToCanvas(k) ==
    /\ k \in 1..Len(images)
    /\ selectedImages = {}
    /\ elements' = Append(elements, addedElement(images[k]))
    /\ selectedElement' = Len(elements) + 1
    /\ saveState
    /\ UNCHANGED << images, selectedImages, currentImageId, isDragging, dragOffset,
                    currentLayout, autoFitSettings, timers >>
    /\ lastRun' = NoRun

\* bulkDeleteImages, the confirm dialog accepted
BulkDeleteImages ==
    /\ selectedImages # {}
    /\ LET keep == notSelectedImageElements(elements, selectedImages)
       IN  /\ elements' = filterKeep(elements, keep)
           /\ selectedElement' = indexAfterFilter(selectedElement, keep)
    /\ images' = filterKeep(images, {k \in 1..Len(images) : images[k].id \notin selectedImages})
    /\ selectedImages' = {}
    /\ saveState
    /\ UNCHANGED << currentImageId, isDragging, dragOffset, currentLayout, autoFitSettings,
                    timers >>
    /\ lastRun' = NoRun

BulkAddToCanvas ==
    /\ selectedImages # {}
    /\ LET selectedImageData == selectedImageDataOf(images, selectedImages)
       IN  elements' = elements \o
                  [k \in 1..Len(selectedImageData) |->
                      bulkAddedElement(selectedImageData[k], k - 1)]
    /\ saveState
    /\ UNCHANGED << images, selectedImages, currentImageId, selectedElement, isDragging,
                    dragOffset, currentLayout, autoFitSettings, timers >>
    /\ lastRun' = NoRun

\* variant: the image's elements stay on the canvas
DeleteImageKeepElements(imageId) ==
    /\ imageId \in imageIds
    /\ images' = filterKeep(images, {k \in 1..Len(images) : images[k].id # imageId})
    /\ selectedImages' = selectedImages \ {imageId}
    /\ saveState
    /\ UNCHANGED << currentImageId, elements, selectedElement, isDragging, dragOffset,
                    currentLayout, autoFitSettings, timers >>
    /\ lastRun' = NoRun

\* the delete button of a thumbnail
DeleteImage(imageId) ==
    /\ imageId \in imageIds
    /\ images' = filterKeep(images, {k \in 1..Len(images) : images[k].id # imageId})
    /\ selectedImages' = selectedImages \ {imageId}
    /\ LET keep == {k \in 1..Len(elements) : elements[k].imageId # imageId}
       IN  /\ elements' = filterKeep(elements, keep)
           /\ selectedElement' = indexAfterFilter(selectedElement, keep)
    /\ saveState
    /\ UNCHANGED << currentImageId, isDragging, dragOffset, currentLayout, autoFitSettings,
                    timers >>
    /\ lastRun' = NoRun

(***************************************************************************)
(* Natural auto-fit                                                        *)
(***************************************************************************)
\* the Math.random() results one run may draw: a pair for each position the
\* organic layout perturbs (every index > 0 when stacking is allowed)
RandomDraws(layout, n, s) ==
    IF layout = "organic" /\ s.allowStacking /\ n > 1
    THEN [1..(n - 1) -> RandomValues \X RandomValues]
    ELSE {<<>>}

\* the outcome of the run goes to the canvas
applyOutcome(layout, selectedImageData, out) ==
    /\ elements' = applyPositionsToCanvas(elements, selectedImages, out.applied,
                                          autoFitSettings)
    /\ selectedElement' = indexAfterFilter(selectedElement,
                              notSelectedImageElements(elements, selectedImages))
    /\ saveState
    /\ lastRun' = [ layout |-> layout, input |-> selectedImageData,
                    settings |-> autoFitSettings,
                    positions |-> out.positions, applied |-> out.applied,
                    calls |-> out.calls,
                    inputAfter |-> imagesAfterLayout(layout, selectedImageData,
                                                     autoFitSettings) ]

\* variant: the placements are computed for every image of the list
applyNaturalAutoFitLayoutAllImages(layout) ==
    IF layout = "null" \/ selectedImages = {}
    THEN /\ UNCHANGED << elements, selectedElement, historyLength, historyIndex >>
         /\ lastRun' = NoRun
    ELSE \E rnd \in RandomDraws(layout, Len(images), autoFitSettings) :
            applyOutcome(layout, images,
                         autoFitOutcome(layout, images, autoFitSettings, rnd))

\* applyNaturalAutoFitLayout with this.currentLayout = layout
applyNaturalAutoFitLayout(layout) ==
    IF layout = "null" \/ selectedImages = {}
    THEN /\ UNCHANGED << elements, selectedElement, historyLength, historyIndex >>
         /\ lastRun' = NoRun
    ELSE \E rnd \in RandomDraws(layout, Len(selectedImageDataOf(images, selectedImages)), autoFitSettings) :
            applyOutcome(layout, selectedImageDataOf(images, selectedImages),
                         autoFitOutcome(layout, selectedImageDataOf(images, selectedImages),
                                        autoFitSettings, rnd))

\* click on a quick layout button: the layout is applied 800 ms later
ApplyQuickNaturalAutoFit(layoutType) ==
    /\ selectedImages # {}
    /\ Len(timers) < MaxTimers
    /\ timers' = Append(timers, [kind |-> "quick", layout |-> layoutType])
    /\ UNCHANGED << images, selectedImages, currentImageId, elements, selectedElement,
                    isDragging, dragOffset, historyLength, historyIndex, currentLayout,
                    autoFitSettings >>
    /\ lastRun' = NoRun

\* click on an algorithm of the advanced panel
SelectLayoutAlgorithm(layout) ==
    /\ currentLayout' = layout
    /\ UNCHANGED << images, selectedImages, currentImageId, elements, selectedElement,
                    isDragging, dragOffset, historyLength, historyIndex, autoFitSettings,
                    timers >>
    /\ lastRun' = NoRun

\* click on the advanced panel's apply button: applied 1000 ms later
ApplyAdvancedNaturalLayout ==
    /\ currentLayout # "null"
    /\ selectedImages # {}
    /\ Len(timers) < MaxTimers
    /\ timers' = Append(timers, [kind |-> "advanced", layout |-> "null"])
    /\ UNCHANGED << images, selectedImages, currentImageId, elements, selectedElement,
                    isDragging, dragOffset, historyLength, historyIndex, currentLayout,
                    autoFitSettings >>
    /\ lastRun' = NoRun

\* a pending callback runs; callbacks of one delay run in the order they were set
TimerFire(i) ==
    /\ i \in 1..Len(timers)
    /\ \A j \in 1..(i - 1) : timers[j].kind # timers[i].kind
    /\ timers' = filterKeep(timers, (1..Len(timers)) \ {i})
    /\ LET layout == IF timers[i].kind = "quick" THEN timers[i].layout ELSE currentLayout
       IN  /\ currentLayout' = layout
           /\ applyNaturalAutoFitLayout(layout)
    /\ UNCHANGED << images, selectedImages, currentImageId, isDragging, dragOffset,
                    autoFitSettings >>

(***************************************************************************)
(* Settings controls                                                       *)
(***************************************************************************)
SetSetting(field, value) ==
    /\ autoFitSettings' = [autoFitSettings EXCEPT ![field] = value]
    /\ UNCHANGED << images, selectedImages, currentImageId, elements, selectedElement,
                    isDragging, dragOffset, historyLength, historyIndex, currentLayout,
                    timers >>
    /\ lastRun' = NoRun

SetAllowStacking(b) == SetSetting("allowStacking", b)
SetMinImageSize(v) == SetSetting("minImageSize", v)
SetSpacing(v) == SetSetting("spacing", v)
SetMargin(v) == SetSetting("margin", v)
SetMaxScaleDown(v) == SetSetting("maxScaleDown", v)
SetPrioritizeLargeImages(b) == SetSetting("prioritizeLargeImages", b)

(***************************************************************************)
(* Canvas interaction                                                      *)
(***************************************************************************)
HandleCanvasMouseDown(x, y) ==
    LET hit == getElementAtPosition(elements, R(x), R(y))
    IN  /\ selectedElement' = hit
        /\ IF hit # 0
           THEN /\ isDragging' = TRUE
                /\ dragOffset' = << RSub(R(x), elements[hit].x), RSub(R(y), elements[hit].y) >>
           ELSE UNCHANGED << isDragging, dragOffset >>
        /\ UNCHANGED << images, selectedImages, currentImageId, elements, historyLength,
                        historyIndex, currentLayout, autoFitSettings, timers >>
        /\ lastRun' = NoRun

HandleCanvasMouseMove(x, y) ==
    /\ isDragging
    /\ elements' = IF selectedElement > 0
                   THEN [elements EXCEPT
                           ![selectedElement].x = RMax(R(0), RSub(R(x), dragOffset[1])),
                           ![selectedElement].y = RMax(R(0), RSub(R(y), dragOffset[2]))]
                   ELSE elements
    /\ UNCHANGED << images, selectedImages, currentImageId, selectedElement, isDragging,
                    dragOffset, historyLength, historyIndex, currentLayout, autoFitSettings,
                    timers >>
    /\ lastRun' = NoRun

HandleCanvasMouseUp ==
    /\ IF isDragging THEN saveState ELSE UNCHANGED << historyLength, historyIndex >>
    /\ isDragging' = FALSE
    /\ UNCHANGED << images, selectedImages, currentImageId, elements, selectedElement,
                    dragOffset, currentLayout, autoFitSettings, timers >>
    /\ lastRun' = NoRun

(***************************************************************************)
(* The application                                                         *)
(***************************************************************************)
\* in Spec the operations that save a snapshot are bounded by MaxHistory
withinHistory == historyLength' <= MaxHistory

Next ==
    \/ \E d \in LoadDims : LoadImage(d[1], d[2])
    \/ SelectAllImages
    \/ SelectNoImages
    \/ \E id \in imageIds : ToggleImageSelection(id)
    \/ \E k \in 1..Len(images) : AddImageToCanvas(k) /\ withinHistory
    \/ BulkDeleteImages /\ withinHistory
    \/ BulkAddToCanvas /\ withinHistory
    \/ \E id \in imageIds : DeleteImage(id) /\ withinHistory
    \/ \E l \in LayoutNames : ApplyQuickNaturalAutoFit(l)
    \/ \E l \in LayoutNames : SelectLayoutAlgorithm(l)
    \/ ApplyAdvancedNaturalLayout
    \/ \E i \in 1..Len(timers) : TimerFire(i) /\ withinHistory
    \/ \E b \in StackingValues : SetAllowStacking(b)
    \/ \E v \in MinSizeValues : SetMinImageSize(v)
    \/ \E v \in SpacingValues : SetSpacing(v)
    \/ \E v \in MarginValues : SetMargin(v)
    \/ \E v \in MaxScaleValues : SetMaxScaleDown(v)
    \/ \E b \in PrioritizeValues : SetPrioritizeLargeImages(b)
    \/ \E p \in MouseDownPoints : HandleCanvasMouseDown(p[1], p[2])
    \/ \E p \in MouseMovePoints : HandleCanvasMouseMove(p[1], p[2])
    \/ HandleCanvasMouseUp /\ withinHistory

Spec == Init /\ [][Next]_vars

(***************************************************************************)
(* The layout engine on its own: the images are loaded and all selected,   *)
(* the settings are set, a quick layout button has been clicked, and the   *)
(* timer it started applies the layout.                                    *)
(***************************************************************************)
MaxFlowImages == 4     \* images laid out by the row layouts
MaxColumnImages == 5   \* images laid out by the column and grid layouts
MaxDispatchImages == 3 \* images laid out by every layout in turn

\* wide; tall and thin; square; tall
FlowDims == {<<1600, 900>>, <<50, 500>>, <<400, 400>>, <<900, 1600>>}
\* wide; tall and thin; square
DispatchDims == {<<1600, 900>>, <<50, 500>>, <<400, 400>>}
\* wide; tall; square
ColumnDims == {<<1600, 900>>, <<900, 1600>>, <<400, 400>>}

FlowSettings ==
    { [DefaultSettings EXCEPT !.spacing = sp, !.minImageSize = ms, !.prioritizeLargeImages = pr] :
        sp \in {10, 100}, ms \in {100, 200}, pr \in BOOLEAN }

ColumnSettings ==
    { [DefaultSettings EXCEPT !.spacing = sp, !.margin = mg, !.minImageSize = ms,
                              !.prioritizeLargeImages = pr] :
        sp \in {10, 0}, mg \in {20, 100}, ms \in {100, 400}, pr \in BOOLEAN }

DispatchSettings ==
    { [DefaultSettings EXCEPT !.allowStacking = st, !.minImageSize = ms,
                              !.prioritizeLargeImages = pr] :
        st \in BOOLEAN, ms \in {100, 200}, pr \in BOOLEAN }

LoadedAndSelected(dims, maxImages, settingsSet, layouts) ==
    /\ \E n \in 0..maxImages : \E f \in [1..n -> dims] :
          images = [k \in 1..n |-> [id |-> k, originalWidth |-> f[k][1],
                                    originalHeight |-> f[k][2]]]
    /\ selectedImages = 1..Len(images)
    /\ currentImageId = Len(images)
    /\ elements = <<>>
    /\ selectedElement = 0
    /\ isDragging = FALSE
    /\ dragOffset = <<R(0), R(0)>>
    /\ historyLength = 1
    /\ historyIndex = 0
    /\ currentLayout = "null"
    /\ autoFitSettings \in settingsSet
    /\ \E l \in layouts : timers = <<[kind |-> "quick", layout |-> l]>>
    /\ lastRun = NoRun

\* the pending timer fires
EngineNext == \E i \in 1..Len(timers) : TimerFire(i)

\* Sizes for the classification: one for every category, the ratios 2.5 and 3
\* that two categories match, the limits 2 and 4.5, and ratios no category
\* matches (0.5, 0.92, 1.1, 1.5, 5).  Ratios on a limit that binary floating
\* point does not represent (0.6, 0.9, 0.95, 1.05, ...) are left out: there
\* the rounding of the subtraction decides the comparison.
ClassifyDims ==
    { <<w, 100>> : w \in {50, 75, 92, 100, 103, 110, 133, 150, 178, 190, 200, 250, 300,
                          350, 450, 500} }
    \cup {<<1600, 900>>, <<900, 1600>>}

ClassifyNext == \E d \in ClassifyDims : LoadImage(d[1], d[2])

\* images of many shapes are loaded, each classified as it arrives
ClassifySpec == Init /\ [][ClassifyNext]_vars

FlowInit ==
    LoadedAndSelected(FlowDims, MaxFlowImages, FlowSettings, {"natural-flow", "aspect-grouped"})

FlowSpec == FlowInit /\ [][EngineNext]_vars

ColumnInit ==
    LoadedAndSelected(ColumnDims, MaxColumnImages, ColumnSettings,
                      {"masonry", "proportional-grid"})

ColumnSpec == ColumnInit /\ [][EngineNext]_vars

DispatchInit ==
    LoadedAndSelected(DispatchDims, MaxDispatchImages, DispatchSettings, LayoutNames)

DispatchSpec == DispatchInit /\ [][EngineNext]_vars

(***************************************************************************)
(* Direct calls of the five layout methods, on lists that include the      *)
(* empty one and with margins that leave less room than one image needs    *)
(* (500: 80 pixels of height; 1000: negative width and height).            *)
(***************************************************************************)
MaxCallImages == 3

CallDims == {<<1600, 900>>, <<50, 500>>, <<3000, 10>>}

CallSettings ==
    { [DefaultSettings EXCEPT !.margin = mg, !.allowStacking = st,
                              !.prioritizeLargeImages = pr] :
        mg \in {20, 500, 1000}, st \in BOOLEAN, pr \in BOOLEAN }

CallInit ==
    /\ \E n \in 0..MaxCallImages : \E f \in [1..n -> CallDims] :
          images = [k \in 1..n |-> [id |-> k, originalWidth |-> f[k][1],
                                    originalHeight |-> f[k][2]]]
    /\ selectedImages = 1..Len(images)
    /\ currentImageId = Len(images)
    /\ elements = <<>>
    /\ selectedElement = 0
    /\ isDragging = FALSE
    /\ dragOffset = <<R(0), R(0)>>
    /\ historyLength = 1
    /\ historyIndex = 0
    /\ currentLayout = "null"
    /\ autoFitSettings \in CallSettings
    /\ timers = <<>>
    /\ lastRun = NoRun

\* one layout method is called on the image list, once in a behaviour;
\* nothing is applied
CallLayout(layout) ==
    /\ lastRun = NoRun
    /\ \E rnd \in RandomDraws(layout, Len(images), autoFitSettings) :
          lastRun' = [ layout |-> layout, input |-> images, settings |-> autoFitSettings,
                       positions |-> layoutPositions(layout, images, autoFitSettings, rnd),
                       applied |-> <<>>, calls |-> <<layout>>,
                       inputAfter |-> imagesAfterLayout(layout, images, autoFitSettings) ]
    /\ UNCHANGED << images, selectedImages, currentImageId, elements, selectedElement,
                    isDragging, dragOffset, historyLength, historyIndex, currentLayout,
                    autoFitSettings, timers >>

CallNext == \E layout \in LayoutNames : CallLayout(layout)

CallSpec == CallInit /\ [][CallNext]_vars

(***************************************************************************)
(* Layout runs on lists that hold images whose width or height is 0:       *)
(* loadImage stores whatever size the decoded image reports.               *)
(***************************************************************************)
MaxInvalidImages == 2

InvalidDims == {<<1600, 900>>, <<1600, 0>>, <<0, 900>>}

InvalidInit ==
    LoadedAndSelected(InvalidDims, MaxInvalidImages, DispatchSettings, LayoutNames)

InvalidSpec == InvalidInit /\ [][EngineNext]_vars

(***************************************************************************)
(* Repeated calls: one layout run through the timer, which puts its        *)
(* rectangles on the canvas, and direct calls of the layout methods before *)
(* and after it, on the same images and settings.  first is the earliest   *)
(* call of a layout other than organic in the behaviour, between tells     *)
(* whether another call was made since.                                    *)
(***************************************************************************)
MaxRepeatImages == 2

RepeatDims == {<<1600, 900>>, <<50, 500>>}

RepeatSettings ==
    { [DefaultSettings EXCEPT !.prioritizeLargeImages = pr] : pr \in BOOLEAN }

RepeatInit ==
    LoadedAndSelected(RepeatDims, MaxRepeatImages, RepeatSettings,
                      {"natural-flow", "masonry"})

NoCall == [ layout |-> "none", input |-> <<>>, settings |-> DefaultSettings,
            positions |-> <<>> ]

callOf(run) ==
    [ layout |-> run.layout, input |-> run.input, settings |-> run.settings,
      positions |-> run.positions ]

firstCall(run) ==
    IF "first" \in DOMAIN run /\ run.first # NoCall THEN run.first
    ELSE IF run.layout \notin {"none", "organic"} THEN callOf(run)
    ELSE NoCall

callsBetween(run) == "first" \in DOMAIN run /\ run.first # NoCall

\* variant: the layout leaves out the images that are on the canvas already
callPositionsUnplaced(layout, selectedImageData, rnd) ==
    layoutPositions(layout,
        filterKeep(selectedImageData,
                   { k \in 1..Len(selectedImageData) :
                       \A e \in 1..Len(elements) :
                           elements[e].imageId # selectedImageData[k].id }),
        autoFitSettings, rnd)

\* what a layout method returns: of the object's fields it reads the
\* settings and the canvas size, next to the array it is passed
callPositions(layout, selectedImageData, rnd) ==
    layoutPositions(layout, selectedImageData, autoFitSettings, rnd)

\* a layout method is called again on the selected images
CallAgain(layout) ==
    /\ selectedImages # {}
    /\ \E rnd \in RandomDraws(layout, Len(selectedImageDataOf(images, selectedImages)),
                               autoFitSettings) :
          lastRun' = [ layout |-> layout,
                       input |-> selectedImageDataOf(images, selectedImages),
                       settings |-> autoFitSettings,
                       positions |-> callPositions(layout,
                                         selectedImageDataOf(images, selectedImages), rnd),
                       applied |-> <<>>, calls |-> <<layout>>,
                       inputAfter |-> imagesAfterLayout(layout,
                                         selectedImageDataOf(images, selectedImages),
                                         autoFitSettings),
                       first |-> firstCall(lastRun),
                       between |-> callsBetween(lastRun) ]
    /\ UNCHANGED << images, selectedImages, currentImageId, elements, selectedElement,
                    isDragging, dragOffset, historyLength, historyIndex, currentLayout,
                    autoFitSettings, timers >>

RepeatNext ==
    \/ \E i \in 1..Len(timers) : TimerFire(i)
    \/ \E layout \in LayoutNames : CallAgain(layout)

RepeatSpec == RepeatInit /\ [][RepeatNext]_vars

(***************************************************************************)
(* Flow runs whose rows hold images lower or narrower than the minimum     *)
(* size, with two values of maxScaleDown, two margins and two spacings; at *)
(* margin 20 and spacing 94 three images of the greatest natural width     *)
(* fill a row exactly.                                                     *)
(***************************************************************************)
MaxRowImages == 4

RowDims == {<<1600, 900>>, <<3000, 10>>, <<50, 500>>}

RowSettings ==
    { [DefaultSettings EXCEPT !.margin = mg, !.spacing = sp, !.minImageSize = ms,
                              !.maxScaleDown = sc] :
        mg \in {20, 500}, sp \in {10, 94}, ms \in {100, 400},
        sc \in {<<3, 10>>, <<1, 1>>} }

RowInit == LoadedAndSelected(RowDims, MaxRowImages, RowSettings, {"natural-flow"})

RowSpec == RowInit /\ [][EngineNext]_vars

(***************************************************************************)
(* One deferred application: the button was clicked with every image       *)
(* selected and the default settings (the quick button of a layout, or the *)
(* apply button of the advanced panel with masonry chosen); selection,     *)
(* image list, settings and chosen algorithm change before the timer       *)
(* fires.                                                                  *)
(***************************************************************************)
MaxDeferImages == 2

DeferDims == {<<1600, 900>>, <<50, 500>>}

DeferLayouts == {"natural-flow", "proportional-grid"}

DeferInit ==
    /\ \E n \in 1..MaxDeferImages : \E f \in [1..n -> DeferDims] :
          images = [k \in 1..n |-> [id |-> k, originalWidth |-> f[k][1],
                                    originalHeight |-> f[k][2]]]
    /\ selectedImages = 1..Len(images)
    /\ currentImageId = Len(images)
    /\ elements = <<>>
    /\ selectedElement = 0
    /\ isDragging = FALSE
    /\ dragOffset = <<R(0), R(0)>>
    /\ historyLength = 1
    /\ historyIndex = 0
    /\ autoFitSettings = DefaultSettings
    /\ \/ /\ currentLayout = "null"
          /\ \E l \in DeferLayouts : timers = <<[kind |-> "quick", layout |-> l]>>
       \/ /\ currentLayout = "masonry"
          /\ timers = <<[kind |-> "advanced", layout |-> "null"]>>
    /\ lastRun = NoRun

DeferNext ==
    \/ SelectNoImages
    \/ \E id \in imageIds : ToggleImageSelection(id)
    \/ \E id \in imageIds : DeleteImage(id)
    \/ \E k \in 1..Len(images) : AddImageToCanvas(k)
    \/ \E l \in DeferLayouts : SelectLayoutAlgorithm(l)
    \/ \E v \in MinSizeValues : SetMinImageSize(v)
    \/ \E i \in 1..Len(timers) : TimerFire(i)

DeferSpec == DeferInit /\ [][DeferNext]_vars

(***************************************************************************)
(* The gallery and the canvas: up to MaxCanvasImages images are in the     *)
(* list at the start, and loads, selection changes, deletions, additions   *)
(* to the canvas and quick auto-fit applications follow, with up to        *)
(* MaxSnapshots - 1 operations that save a snapshot.                       *)
(***************************************************************************)
MaxCanvasImages == 3

CanvasDims == {<<1600, 900>>}

CanvasLayouts == {"masonry"}

CanvasInit ==
    /\ \E n \in 0..MaxCanvasImages : \E f \in [1..n -> CanvasDims] :
          images = [k \in 1..n |-> [id |-> k, originalWidth |-> f[k][1],
                                    originalHeight |-> f[k][2]]]
    /\ selectedImages = {}
    /\ currentImageId = Len(images)
    /\ elements = <<>>
    /\ selectedElement = 0
    /\ isDragging = FALSE
    /\ dragOffset = <<R(0), R(0)>>
    /\ historyLength = 1
    /\ historyIndex = 0
    /\ currentLayout = "null"
    /\ autoFitSettings = DefaultSettings
    /\ timers = <<>>
    /\ lastRun = NoRun

CanvasNext ==
    \/ \E d \in CanvasDims : LoadImage(d[1], d[2])
    \/ SelectAllImages
    \/ SelectNoImages
    \/ \E id \in imageIds : ToggleImageSelection(id)
    \/ \E k \in 1..Len(images) : AddImageToCanvas(k)
    \/ BulkDeleteImages
    \/ BulkAddToCanvas
    \/ \E id \in imageIds : DeleteImage(id)
    \/ \E l \in CanvasLayouts : ApplyQuickNaturalAutoFit(l)
    \/ \E i \in 1..Len(timers) : TimerFire(i)

CanvasSpec == CanvasInit /\ [][CanvasNext]_vars

(***************************************************************************)
(* Properties                                                              *)
(***************************************************************************)

\* C1: after any sequence of loads, selections, additions, deletions,
\* setting changes, layout runs and drags, every image element on the canvas
\* has a width/height ratio within 0.01 of its image's original ratio.
C1_NoElementDistorted ==
    \A k \in 1..Len(elements) :
        validateAspectRatioPreservation(elements[k].imageData,
            [width |-> elements[k].width, height |-> elements[k].height])

\* a run whose layout stretched an image has just placed the fallback's
\* rectangles, under a minimum size the user changed
C1_Witness ==
    /\ lastRun.calls = <<"natural-flow", "proportional-grid">>
    /\ lastRun.settings.minImageSize = 200
    /\ Len(elements) >= 2

\* C2: when a rectangle of the requested layout fails the aspect-ratio check,
\* what is placed on the canvas is exactly the grid layout's output for the
\* same images and settings, and every rectangle of it passes the check.
C2_FallbackIsGridAndValid ==
    (lastRun.layout # "none" /\ ~everyResult(validationResults(lastRun.positions))) =>
        LET grid == applyProportionalGridLayout(lastRun.input, lastRun.settings)
        IN  /\ lastRun.applied = grid
            /\ everyResult(validationResults(grid))
            /\ Len(elements) = Len(grid)
            /\ \A k \in 1..Len(grid) :
                  /\ elements[k].imageId = grid[k].imageData.id
                  /\ elements[k].x = grid[k].x
                  /\ elements[k].y = grid[k].y
                  /\ elements[k].width = grid[k].width
                  /\ elements[k].height = grid[k].height

\* a grouped run of three images fell back: the thin image was stretched
C2_Witness ==
    /\ lastRun.layout = "aspect-grouped"
    /\ Len(lastRun.input) = 3
    /\ \E k \in 1..3 : ~validationResults(lastRun.positions)[k]
    /\ \E k \in 1..3 : validationResults(lastRun.positions)[k]

\* C3: a run computes its rectangles with the algorithm its strategy name
\* stands for; when they all pass the check they are applied and no fallback
\* grid run is made; otherwise the grid layout is run once after it, its
\* output is applied, and nothing else is run.
C3_DispatchAndSingleFallback ==
    lastRun.layout # "none" =>
        LET l == lastRun.layout
            in == lastRun.input
            s == lastRun.settings
        IN  /\ l = "natural-flow" => lastRun.positions = applyNaturalFlowLayout(in, s)
            /\ l = "masonry" => lastRun.positions = applyMasonryLayout(in, s)
            /\ l = "proportional-grid" => lastRun.positions = applyProportionalGridLayout(in, s)
            /\ l = "aspect-grouped" => lastRun.positions = applyAspectGroupedLayout(in, s)
            /\ l = "organic" =>
                  \E rnd \in RandomDraws(l, Len(in), s) :
                      lastRun.positions = applyOrganicStackLayout(in, s, rnd)
            /\ IF everyResult(validationResults(lastRun.positions))
               THEN lastRun.calls = <<l>> /\ lastRun.applied = lastRun.positions
               ELSE /\ lastRun.calls = <<l, "proportional-grid">>
                    /\ lastRun.applied = applyProportionalGridLayout(in, s)

\* an organic run of two images passed the check and was applied as it was
C3_Witness ==
    /\ lastRun.layout = "organic"
    /\ lastRun.calls = <<"organic">>
    /\ Len(lastRun.input) = 2
    /\ lastRun.positions # applyMasonryLayout(lastRun.input, lastRun.settings)

\* C4: every rectangle of the masonry layout and of the grid layout passes
\* the aspect-ratio check, also when the minimum-size floor engages.
C4_ColumnAndGridRectanglesValid ==
    lastRun.layout \in {"masonry", "proportional-grid"} =>
        everyResult(validationResults(lastRun.positions))

\* a masonry run in which the floor engaged: a wide image got the minimum
\* height, and a width beyond its column
C4_Witness ==
    /\ lastRun.layout = "masonry"
    /\ \E k \in 1..Len(lastRun.positions) :
          /\ lastRun.positions[k].height = R(lastRun.settings.minImageSize)
          /\ RLt(lastRun.positions[k].height, lastRun.positions[k].width)

\* C5: a rectangle of the flow layout or of the grouped layout whose scaled
\* width and height both reach the minimum size passes the aspect-ratio
\* check.
C5_FlowRectanglesValidAboveFloor ==
    lastRun.layout \in {"natural-flow", "aspect-grouped"} =>
        \A k \in 1..Len(lastRun.positions) :
            LET pos == lastRun.positions[k]
                minSize == R(lastRun.settings.minImageSize)
            IN  (RLe(minSize, pos.finalWidth) /\ RLe(minSize, pos.finalHeight)) =>
                    validateAspectRatioPreservation(pos.imageData,
                        [width |-> pos.width, height |-> pos.height])

\* a flow run with a wide image above the floor next to a thin one under it
C5_Witness ==
    /\ lastRun.layout = "natural-flow"
    /\ \E k \in 1..Len(lastRun.positions) :
          /\ RLe(R(lastRun.settings.minImageSize), lastRun.positions[k].finalWidth)
          /\ RLe(R(lastRun.settings.minImageSize), lastRun.positions[k].finalHeight)
          /\ lastRun.positions[k].imageData.originalWidth # lastRun.positions[k].imageData.originalHeight
    /\ \E k \in 1..Len(lastRun.positions) :
          RLt(lastRun.positions[k].finalWidth, R(lastRun.settings.minImageSize))

\* C6: the classification of every loaded image is the first category, in
\* the order Square(1.0, 0.05), Portrait(0.75, 0.15), Landscape(1.33, 0.15),
\* Wide(1.78, 0.2), Panoramic(2.5, 0.5), Ultra-wide(3.5, 1.0), whose ratio is
\* within its tolerance of the image's ratio (Panoramic when both Panoramic
\* and Ultra-wide match); when none matches it is Landscape for a ratio above
\* 1 and Portrait otherwise.
C6_ClassifyFirstMatch ==
    \A k \in 1..Len(images) :
        LET ratio == Rat(images[k].originalWidth, images[k].originalHeight)
            catalog == << <<"Square", <<1, 1>>, <<1, 20>> >>,
                          <<"Portrait", <<3, 4>>, <<3, 20>> >>,
                          <<"Landscape", <<133, 100>>, <<3, 20>> >>,
                          <<"Wide", <<89, 50>>, <<1, 5>> >>,
                          <<"Panoramic", <<5, 2>>, <<1, 2>> >>,
                          <<"Ultra-wide", <<7, 2>>, <<1, 1>> >> >>
            matches == {j \in 1..6 : RLe(RAbs(RSub(ratio, catalog[j][2])), catalog[j][3])}
            c == categorizeByAspectRatio(images[k])
        IN  /\ matches # {} =>
                  \E j \in matches : (\A i \in matches : j <= i) /\ c.name = catalog[j][1]
            /\ {5, 6} \subseteq matches => c.name = "Panoramic"
            /\ matches = {} =>
                  c.name = (IF RLt(R(1), ratio) THEN "Landscape" ELSE "Portrait")

\* an image that Panoramic and Ultra-wide both match and one that nothing
\* matches are loaded
C6_Witness ==
    /\ \E k \in 1..Len(images) :
          images[k].originalWidth = 300 /\ images[k].originalHeight = 100
    /\ \E k \in 1..Len(images) :
          images[k].originalWidth = 110 /\ images[k].originalHeight = 100

\* C7: the grouping used by a grouped run puts every image in exactly one
\* bucket, that of its category's group; the bucket sizes sum to the number
\* of images; each bucket keeps the input order, and the buckets come in the
\* order in which their groups first appear in the input.
C7_PartitionByGroup ==
    lastRun.layout = "aspect-grouped" =>
        LET input == lastRun.input
            groups == groupImagesByAspectRatio(input)
            size(g) == Len(groups[g].images)
            \* where the j-th image of bucket g is in the input (ids are unique)
            at(g, j) == CHOOSE i \in 1..Len(input) : input[i].id = groups[g].images[j].id
            RECURSIVE total(_)
            total(g) == IF g = 0 THEN 0 ELSE total(g - 1) + size(g)
        IN  /\ \A i \in 1..Len(input) :
                  Cardinality({gj \in UNION {{<<g, j>> : j \in 1..size(g)} : g \in 1..Len(groups)} :
                                  groups[gj[1]].images[gj[2]] = input[i]}) = 1
            /\ \A g \in 1..Len(groups) : \A j \in 1..size(g) :
                  /\ \E i \in 1..Len(input) : input[i] = groups[g].images[j]
                  /\ categorizeByAspectRatio(groups[g].images[j]).group = groups[g].group
            /\ \A g, h \in 1..Len(groups) : g # h => groups[g].group # groups[h].group
            /\ total(Len(groups)) = Len(input)
            /\ Len(lastRun.positions) = Len(input)
            /\ \A g \in 1..Len(groups) : \A j1, j2 \in 1..size(g) :
                  j1 < j2 => at(g, j1) < at(g, j2)
            /\ \A g, h \in 1..Len(groups) : g < h => at(g, 1) < at(h, 1)

\* a grouped run over two groups, the first group's images apart in the input
C7_Witness ==
    /\ lastRun.layout = "aspect-grouped"
    /\ Len(lastRun.input) >= 3
    /\ categorizeByAspectRatio(lastRun.input[1]).group
         # categorizeByAspectRatio(lastRun.input[2]).group
    /\ categorizeByAspectRatio(lastRun.input[1]).group
         = categorizeByAspectRatio(lastRun.input[3]).group

\* C8: a grid run on n >= 1 images uses cols = ceil(sqrt(n)) columns and
\* rows = ceil(n / cols) rows; the image of index i has the cell of row
\* i div cols (below rows) and column i mod cols, no two images have the same
\* cell, and its rectangle is centred in that cell.  The images 1600x900 and
\* 900x1600 with margin 20, spacing 10 and minimum size 100 get 2 columns
\* and 1 row.
C8_GridCells ==
    (lastRun.layout = "proportional-grid" /\ Len(lastRun.input) >= 1) =>
        LET input == lastRun.input
            s == lastRun.settings
            n == Len(input)
            cols == CHOOSE c \in 1..n : c * c >= n /\ (c - 1) * (c - 1) < n
            rows == CHOOSE r \in 1..n : r * cols >= n /\ (r - 1) * cols < n
            cellWidth == Rat(canvasWidth - 2 * s.margin - (cols - 1) * s.spacing, cols)
            cellHeight == Rat(canvasHeight - 2 * s.margin - (rows - 1) * s.spacing, rows)
            cellX(i) == RAdd(R(s.margin), RMul(R(i % cols), RAdd(cellWidth, R(s.spacing))))
            cellY(i) == RAdd(R(s.margin), RMul(R(i \div cols), RAdd(cellHeight, R(s.spacing))))
        IN  /\ gridCols(n) = cols
            /\ gridRows(n) = rows
            /\ Len(lastRun.positions) = n
            /\ \A i \in 0..(n - 1) :
                  LET pos == lastRun.positions[i + 1]
                  IN  /\ pos.imageData = input[i + 1]
                      /\ i \div cols < rows
                      /\ pos.x = RAdd(cellX(i), RDiv(RSub(cellWidth, pos.width), R(2)))
                      /\ pos.y = RAdd(cellY(i), RDiv(RSub(cellHeight, pos.height), R(2)))
            /\ \A i, j \in 0..(n - 1) :
                  i # j => <<i \div cols, i % cols>> # <<j \div cols, j % cols>>
            /\ ( /\ n = 2
                 /\ <<input[1].originalWidth, input[1].originalHeight>> = <<1600, 900>>
                 /\ <<input[2].originalWidth, input[2].originalHeight>> = <<900, 1600>>
                 /\ s.margin = 20 /\ s.spacing = 10 /\ s.minImageSize = 100 )
               => (cols = 2 /\ rows = 1 /\ cellWidth = R(935) /\ cellHeight = R(1040))

\* the grid run on the images 1600x900 and 900x1600 with the default settings
C8_Witness ==
    /\ lastRun.layout = "proportional-grid"
    /\ Len(lastRun.input) = 2
    /\ <<lastRun.input[1].originalWidth, lastRun.input[1].originalHeight>> = <<1600, 900>>
    /\ <<lastRun.input[2].originalWidth, lastRun.input[2].originalHeight>> = <<900, 1600>>
    /\ lastRun.settings = DefaultSettings
    /\ RLt(lastRun.positions[2].width, R(935))
    /\ RLt(lastRun.positions[1].x, lastRun.positions[2].x)
    /\ RLt(lastRun.positions[2].y, lastRun.positions[1].y)

\* C9 as stated: after a masonry run any two column heights differ by less
\* than the height of the tallest rectangle placed.
C9_Original ==
    (lastRun.layout = "masonry" /\ Len(lastRun.input) >= 1) =>
        LET run == masonryRun(lastRun.input, lastRun.settings)
            tallest == CHOOSE h \in {lastRun.positions[k].height : k \in 1..Len(lastRun.positions)} :
                          \A k \in 1..Len(lastRun.positions) : RLe(lastRun.positions[k].height, h)
        IN  \A c, d \in 1..Len(run.columnHeights) :
                RLt(RSub(run.columnHeights[c], run.columnHeights[d]), tallest)

\* C9: after a masonry run any two column heights differ by at most the
\* height of the tallest rectangle placed plus the spacing; five equal
\* squares under the default settings go to 3 columns, none exceeding another
\* by more than one image height plus the spacing.
C9_ColumnsBalancedWithinSpacing ==
    (lastRun.layout = "masonry" /\ Len(lastRun.input) >= 1) =>
        LET s == lastRun.settings
            run == masonryRun(lastRun.input, s)
            tallest == CHOOSE h \in {lastRun.positions[k].height : k \in 1..Len(lastRun.positions)} :
                          \A k \in 1..Len(lastRun.positions) : RLe(lastRun.positions[k].height, h)
        IN  /\ lastRun.positions = run.positions
            /\ \A c, d \in 1..Len(run.columnHeights) :
                  RLe(RSub(run.columnHeights[c], run.columnHeights[d]),
                      RAdd(tallest, R(s.spacing)))
            /\ ( /\ Len(lastRun.input) = 5
                 /\ \A k \in 1..5 : lastRun.input[k].originalWidth = lastRun.input[k].originalHeight
                 /\ s = DefaultSettings )
               => /\ Len(run.columnHeights) = 3
                  /\ \A k \in 1..5 : lastRun.positions[k].height = tallest

\* the masonry run on five equal squares with the default settings: the
\* first column holds two images, the third one
C9_Witness ==
    /\ lastRun.layout = "masonry"
    /\ Len(lastRun.input) = 5
    /\ \A k \in 1..5 : lastRun.input[k].originalWidth = lastRun.input[k].originalHeight
    /\ lastRun.settings = DefaultSettings
    /\ LET h == masonryRun(lastRun.input, lastRun.settings).columnHeights
       IN  RSub(h[1], h[3]) = RAdd(lastRun.positions[1].height, R(10))

\* C10 as stated: in a flow run over images whose natural widths sum to more
\* than the available width, there are as many rows as row breaks, and no
\* row's content is wider than the available width plus one natural width.
C10_Original ==
    LET s == lastRun.settings
        run == flowRun(lastRun.input, s)
        availableWidth == R(canvasWidth - 2 * s.margin)
        content(r) == RAdd(sumNaturalWidth(run.rows[r], Len(run.rows[r])),
                           R((Len(run.rows[r]) - 1) * s.spacing))
        \* the natural widths of the first k input images, summed
        RECURSIVE cumulative(_)
        cumulative(k) ==
            IF k = 0 THEN R(0)
            ELSE RAdd(cumulative(k - 1),
                      RMin(R(lastRun.input[k].originalWidth), RMul(availableWidth, <<3, 10>>)))
    IN  (lastRun.layout = "natural-flow" /\ RLt(availableWidth, cumulative(Len(lastRun.input)))) =>
            /\ Len(run.rows) = run.breaks
            /\ \A r \in 1..Len(run.rows) : \A k \in 1..Len(run.rows[r]) :
                  RLe(content(r), RAdd(availableWidth, run.rows[r][k].naturalWidth))

\* C10: in a flow run over images whose natural widths sum to more than the
\* available width, there is one row more than there are row breaks (the
\* rectangles have that many different y), and no row's content is wider
\* than the available width plus one natural width.
C10_RowsAreBreaksPlusOne ==
    LET s == lastRun.settings
        run == flowRun(lastRun.input, s)
        availableWidth == R(canvasWidth - 2 * s.margin)
        content(r) == RAdd(sumNaturalWidth(run.rows[r], Len(run.rows[r])),
                           R((Len(run.rows[r]) - 1) * s.spacing))
        \* the natural widths of the first k input images, summed
        RECURSIVE cumulative(_)
        cumulative(k) ==
            IF k = 0 THEN R(0)
            ELSE RAdd(cumulative(k - 1),
                      RMin(R(lastRun.input[k].originalWidth), RMul(availableWidth, <<3, 10>>)))
    IN  (lastRun.layout = "natural-flow" /\ RLt(availableWidth, cumulative(Len(lastRun.input)))) =>
            /\ lastRun.positions = run.positions
            /\ Len(run.rows) = run.breaks + 1
            /\ Cardinality({lastRun.positions[k].y : k \in 1..Len(lastRun.positions)})
                 = run.breaks + 1
            /\ \A r \in 1..Len(run.rows) : \A k \in 1..Len(run.rows[r]) :
                  RLe(content(r), RAdd(availableWidth, run.rows[r][k].naturalWidth))

\* a flow run of four wide images: the fourth one starts a second row
C10_Witness ==
    /\ lastRun.layout = "natural-flow"
    /\ Len(lastRun.input) = 4
    /\ \A k \in 1..4 : lastRun.input[k].originalWidth = 1600
    /\ flowRun(lastRun.input, lastRun.settings).breaks = 1
    /\ lastRun.positions[4].x = R(lastRun.settings.margin)
    /\ RLt(lastRun.positions[1].y, lastRun.positions[4].y)

(***************************************************************************)
(* C11: every rectangle the organic layout returns lies inside the canvas  *)
(* inset by the margin: margin <= x, x + width <= canvasWidth - margin,    *)
(* margin <= y and y + height <= canvasHeight - margin, for every index    *)
(* and every value of allowStacking.                                       *)
(***************************************************************************)
insideInsetCanvas(pos, s) ==
    /\ RLe(R(s.margin), pos.x)
    /\ RLe(RAdd(pos.x, pos.width), R(canvasWidth - s.margin))
    /\ RLe(R(s.margin), pos.y)
    /\ RLe(RAdd(pos.y, pos.height), R(canvasHeight - s.margin))

C11_OrganicInsideInsetCanvas ==
    (lastRun # NoRun /\ lastRun.layout = "organic") =>
        \A k \in 1..Len(lastRun.positions) :
            insideInsetCanvas(lastRun.positions[k], lastRun.settings)

(***************************************************************************)
(* C12: called on an empty image list, each of the five layouts returns an *)
(* empty list of rectangles.                                               *)
(***************************************************************************)
C12_EmptyListGivesEmptyLayout ==
    (lastRun # NoRun /\ lastRun.input = <<>>) => lastRun.positions = <<>>

C12_Witness ==
    /\ lastRun # NoRun
    /\ lastRun.input = <<>>
    /\ lastRun.layout = "proportional-grid"
    /\ lastRun.positions = <<>>

(***************************************************************************)
(* C13: an image whose width or height is not positive is rejected before  *)
(* any ratio is computed from it: no layout run receives such an image,    *)
(* and no rectangle with an infinite or undefined side is produced or      *)
(* put on the canvas.                                                      *)
(***************************************************************************)
finiteRectangle(pos) ==
    IsFinite(pos.x) /\ IsFinite(pos.y) /\ IsFinite(pos.width) /\ IsFinite(pos.height)

C13_InvalidDescriptorRejected ==
    /\ lastRun # NoRun =>
          /\ \A k \in 1..Len(lastRun.input) :
                lastRun.input[k].originalWidth > 0 /\ lastRun.input[k].originalHeight > 0
          /\ \A k \in 1..Len(lastRun.positions) : finiteRectangle(lastRun.positions[k])
          /\ \A k \in 1..Len(lastRun.applied) : finiteRectangle(lastRun.applied[k])
    /\ \A e \in 1..Len(elements) : finiteRectangle(elements[e])

(***************************************************************************)
(* C14: when the layout's rectangles fail the check and the grid layout    *)
(* run in their place returns a rectangle that fails it too, nothing is    *)
(* applied: a fallback result reaches the canvas only if it passes.        *)
(***************************************************************************)
C14_InvalidFallbackNotApplied ==
    (lastRun # NoRun /\ ~everyResult(validationResults(lastRun.positions))) =>
        \/ everyResult(validationResults(lastRun.applied))
        \/ /\ lastRun.applied = <<>>
           /\ \A e \in 1..Len(elements) :
                 validateAspectRatioPreservation(elements[e].imageData,
                     [width |-> elements[e].width, height |-> elements[e].height])

(***************************************************************************)
(* C15: whatever room the margin leaves, also less than one image of the   *)
(* minimum size needs (canvas side < 2*margin + minImageSize), every       *)
(* layout returns one rectangle for each image it was given: each image of *)
(* the input appears in exactly one rectangle.                             *)
(***************************************************************************)
degenerateCanvas(s) ==
    \/ canvasWidth < 2 * s.margin + s.minImageSize
    \/ canvasHeight < 2 * s.margin + s.minImageSize

C15_OneRectanglePerImage ==
    lastRun # NoRun =>
        /\ Len(lastRun.positions) = Len(lastRun.input)
        /\ \A k \in 1..Len(lastRun.input) :
              Cardinality({ j \in 1..Len(lastRun.positions) :
                              lastRun.positions[j].imageData = lastRun.input[k] }) = 1

\* a flow call on three images with no room at all: every image starts a row
C15_Witness ==
    /\ lastRun # NoRun
    /\ lastRun.layout = "natural-flow"
    /\ lastRun.settings.margin = 1000
    /\ degenerateCanvas(lastRun.settings)
    /\ Len(lastRun.input) = 3
    /\ Len(lastRun.positions) = 3

atLeast(pos, size) == RLe(R(size), pos.width) /\ RLe(R(size), pos.height)

C18_RectanglesAtLeastMinSize ==
    lastRun # NoRun =>
        \A k \in 1..Len(lastRun.positions) :
            /\ atLeast(lastRun.positions[k], lastRun.settings.minImageSize)
            /\ atLeast(lastRun.positions[k], 1)

scaleBox(layout, n, s) ==
    IF layout = "masonry"
    THEN LET columnWidth == Rat(canvasWidth - 2 * s.margin
                                  - (masonryColumnCount(n) - 1) * s.spacing,
                                masonryColumnCount(n))
         IN  <<columnWidth, RMul(columnWidth, R(2))>>
    ELSE <<baseGridWidth(n, s), baseGridHeight(n, s)>>

stepOne(ratio, box) ==
    IF RLt(ratio, RDiv(box[1], box[2]))
    THEN [width |-> RMul(box[2], ratio), height |-> box[2]]
    ELSE [width |-> box[1], height |-> RDiv(box[1], ratio)]

stepTwoTaken(one, minSize) == RLt(one.width, R(minSize)) \/ RLt(one.height, R(minSize))

stepTwo(ratio, one, minSize) ==
    IF RLt(one.width, one.height)
    THEN [width |-> R(minSize), height |-> RDiv(R(minSize), ratio)]
    ELSE [width |-> RMul(R(minSize), ratio), height |-> R(minSize)]

scaledAsStated(pos, box, minSize) ==
    LET ratio == Rat(pos.imageData.originalWidth, pos.imageData.originalHeight)
        one == stepOne(ratio, box)
        expected == IF stepTwoTaken(one, minSize) THEN stepTwo(ratio, one, minSize) ELSE one
    IN  /\ pos.width = expected.width
        /\ pos.height = expected.height
        /\ pos.width = RMul(pos.height, ratio)

stepOneInsideBox(pos, box) ==
    LET one == stepOne(Rat(pos.imageData.originalWidth, pos.imageData.originalHeight), box)
    IN  RLe(one.width, box[1]) /\ RLe(one.height, box[2])

\* the claim as stated: step 1 stays inside the box for every box
C19_Original ==
    (lastRun # NoRun /\ lastRun.layout \in {"masonry", "proportional-grid"}) =>
        \A k \in 1..Len(lastRun.positions) :
            LET box == scaleBox(lastRun.layout, Len(lastRun.input), lastRun.settings)
            IN  /\ scaledAsStated(lastRun.positions[k], box, lastRun.settings.minImageSize)
                /\ stepOneInsideBox(lastRun.positions[k], box)

\* C19 (amended): as above, with step 1 inside the box when the box has a
\* positive width and height.
C19_ScaleToFitSteps ==
    (lastRun # NoRun /\ lastRun.layout \in {"masonry", "proportional-grid"}) =>
        \A k \in 1..Len(lastRun.positions) :
            LET box == scaleBox(lastRun.layout, Len(lastRun.input), lastRun.settings)
            IN  /\ scaledAsStated(lastRun.positions[k], box, lastRun.settings.minImageSize)
                /\ (RLt(R(0), box[1]) /\ RLt(R(0), box[2])) =>
                       stepOneInsideBox(lastRun.positions[k], box)

\* a grid call on three images where the three cases occur: step 1 bound by
\* the height, step 1 bound by the width, and step 2
C19_Witness ==
    /\ lastRun # NoRun
    /\ lastRun.layout = "proportional-grid"
    /\ Len(lastRun.positions) = 3
    /\ LET box == scaleBox(lastRun.layout, 3, lastRun.settings)
           ratioOf(k) == Rat(lastRun.positions[k].imageData.originalWidth,
                             lastRun.positions[k].imageData.originalHeight)
           one(k) == stepOne(ratioOf(k), box)
       IN  /\ RLt(R(0), box[1]) /\ RLt(R(0), box[2])
           /\ \E k \in 1..3 : /\ one(k).height = box[2]
                                /\ ~stepTwoTaken(one(k), lastRun.settings.minImageSize)
           /\ \E k \in 1..3 : /\ one(k).width = box[1]
                                /\ RLt(one(k).height, box[2])
           /\ \E k \in 1..3 : /\ stepTwoTaken(one(k), lastRun.settings.minImageSize)
                                /\ RLt(one(k).width, one(k).height)

(***************************************************************************)
(* C20: the masonry layout uses clamp(ceil(sqrt(n)), 2, 5) columns, whose  *)
(* heights start at margin.  Each image, in processing order, goes to a    *)
(* column of minimal height at that moment, the lowest index among equal   *)
(* ones, at x = margin + column * (columnWidth + spacing) and y = the      *)
(* column's height, which then grows by the rectangle's height plus        *)
(* spacing.  So two rectangles of one column never overlap vertically.     *)
(***************************************************************************)
\* clamp(ceil(sqrt(n)), 2, 5) without the model's operators
statedColumns(n) ==
    LET root == CHOOSE c \in 0..n : c * c >= n /\ (c = 0 \/ (c - 1) * (c - 1) < n)
    IN  IF root < 2 THEN 2 ELSE IF root > 5 THEN 5 ELSE root

statedColumnX(c, columnWidth, s) ==
    RAdd(R(s.margin), RMul(R(c), RAdd(columnWidth, R(s.spacing))))

\* The placement rule applied to the returned rectangles in turn: heights
\* are the column heights before the k-th rectangle, which must sit at the
\* top of the lowest-index column of minimal height; the result is the
\* column heights after the last rectangle, or <<>> when a rectangle sits
\* elsewhere.
RECURSIVE statedReplay(_, _, _, _, _)
statedReplay(positions, k, heights, columnWidth, s) ==
    IF k > Len(positions) THEN heights
    ELSE LET c == CHOOSE c \in 1..Len(heights) :
                      /\ \A d \in 1..Len(heights) : RLe(heights[c], heights[d])
                      /\ \A d \in 1..(c - 1) : RLt(heights[c], heights[d])
         IN  IF /\ positions[k].x = statedColumnX(c - 1, columnWidth, s)
                /\ positions[k].y = heights[c]
             THEN statedReplay(positions, k + 1,
                      [heights EXCEPT ![c] = RAdd(@, RAdd(positions[k].height,
                                                          R(s.spacing)))],
                      columnWidth, s)
             ELSE <<>>

C20_MasonryPlacement ==
    /\ \A n \in 0..30 : masonryColumnCount(n) = statedColumns(n)
    /\ (lastRun # NoRun /\ lastRun.layout = "masonry") =>
          /\ Len(lastRun.positions) = Len(lastRun.input)
          /\ \A k \in 1..Len(lastRun.positions) :
                lastRun.positions[k].imageData =
                    sortedImagesOf(lastRun.input, lastRun.settings)[k]
          /\ statedReplay(lastRun.positions, 1,
                          [c \in 1..statedColumns(Len(lastRun.input)) |->
                              R(lastRun.settings.margin)],
                          Rat(canvasWidth - 2 * lastRun.settings.margin
                                - (statedColumns(Len(lastRun.input)) - 1)
                                  * lastRun.settings.spacing,
                              statedColumns(Len(lastRun.input))),
                          lastRun.settings)
                = masonryRun(lastRun.input, lastRun.settings).columnHeights
          /\ \A j, k \in 1..Len(lastRun.positions) :
                (j < k /\ lastRun.positions[j].x = lastRun.positions[k].x) =>
                    RLe(RAdd(lastRun.positions[j].y, lastRun.positions[j].height),
                        lastRun.positions[k].y)

\* five images in three columns: one column takes two of them, and a later
\* image starts another column at the top
C20_Witness ==
    /\ lastRun # NoRun
    /\ lastRun.layout = "masonry"
    /\ Len(lastRun.positions) = 5
    /\ statedColumns(5) = 3
    /\ \E j, k \in 1..5 :
          /\ j < k
          /\ lastRun.positions[j].x = lastRun.positions[k].x
          /\ RLt(lastRun.positions[j].y, lastRun.positions[k].y)
    /\ \E k \in 2..5 :
          /\ lastRun.positions[k].y = R(lastRun.settings.margin)
          /\ lastRun.positions[k].x # R(lastRun.settings.margin)

(***************************************************************************)
(* C21: in every row the flow layout finalizes, the first rectangle is at  *)
(* x = margin and every following one at the previous rectangle's x plus   *)
(* its width plus spacing, so the rectangles of a row do not overlap       *)
(* horizontally.                                                           *)
(***************************************************************************)
\* the number of rectangles in the rows before row r
RECURSIVE rectanglesBefore(_, _)
rectanglesBefore(rows, r) ==
    IF r = 1 THEN 0 ELSE rectanglesBefore(rows, r - 1) + Len(rows[r - 1])

C21_RowGapsAreSpacing ==
    (lastRun # NoRun /\ lastRun.layout = "natural-flow") =>
        LET rows == flowRun(lastRun.input, lastRun.settings).rows
            s == lastRun.settings
        IN  \A r \in 1..Len(rows) : \A k \in 1..Len(rows[r]) :
                LET i == rectanglesBefore(rows, r) + k
                IN  IF k = 1
                    THEN lastRun.positions[i].x = R(s.margin)
                    ELSE /\ lastRun.positions[i].x =
                              RAdd(lastRun.positions[i - 1].x,
                                   RAdd(lastRun.positions[i - 1].width, R(s.spacing)))
                         /\ RLe(RAdd(lastRun.positions[i - 1].x,
                                     lastRun.positions[i - 1].width),
                                lastRun.positions[i].x)

(***************************************************************************)
(* C22: in the flow layout every row after the first starts at the         *)
(* previous row's y plus the greatest height among the previous row's      *)
(* rectangles plus spacing, so rectangles of successive rows do not        *)
(* overlap vertically.                                                     *)
(***************************************************************************)
\* the greatest height among positions[from + 1 .. from + count]
RECURSIVE maxRectangleHeight(_, _, _)
maxRectangleHeight(positions, from, count) ==
    IF count = 1 THEN positions[from + 1].height
    ELSE RMax(maxRectangleHeight(positions, from, count - 1), positions[from + count].height)

C22_RowsStackedByHeight ==
    (lastRun # NoRun /\ lastRun.layout = "natural-flow") =>
        LET rows == flowRun(lastRun.input, lastRun.settings).rows
        IN  \A r \in 2..Len(rows) :
                LET before == rectanglesBefore(rows, r - 1)
                    here == rectanglesBefore(rows, r)
                    bottom == RAdd(lastRun.positions[before + 1].y,
                                   maxRectangleHeight(lastRun.positions, before,
                                                      Len(rows[r - 1])))
                IN  \A k \in 1..Len(rows[r]) :
                        /\ lastRun.positions[here + k].y =
                              RAdd(bottom, R(lastRun.settings.spacing))
                        /\ RLe(bottom, lastRun.positions[here + k].y)

(***************************************************************************)
(* C23: the grouped layout places the groups in the order in which their   *)
(* first image appears, each group laid out by the flow layout on that     *)
(* group's images alone; the first group's top is at margin and every      *)
(* later group's top is the previous group's bottom (greatest y + height)  *)
(* plus twice the spacing, so groups do not overlap vertically; x, width   *)
(* and height are those of the group's flow layout.                        *)
(***************************************************************************)
RECURSIVE imagesBefore(_, _)
imagesBefore(groups, g) ==
    IF g = 1 THEN 0 ELSE imagesBefore(groups, g - 1) + Len(groups[g - 1].images)

\* index in images of the first image of the named group
firstSeen(imageList, name) ==
    CHOOSE i \in 1..Len(imageList) :
        /\ categorizeByAspectRatio(imageList[i]).group = name
        /\ \A j \in 1..(i - 1) : categorizeByAspectRatio(imageList[j]).group # name

groupTop(positions, from, count) ==
    minOfY(SubSeq(positions, from + 1, from + count), count)

groupBottom(positions, from, count) ==
    maxOfBottom(SubSeq(positions, from + 1, from + count), count)

C23_GroupsStackedInFirstSeenOrder ==
    (lastRun # NoRun /\ lastRun.layout = "aspect-grouped") =>
        LET groups == groupImagesByAspectRatio(lastRun.input)
            s == lastRun.settings
            P == lastRun.positions
        IN  /\ \A g \in 2..Len(groups) :
                    firstSeen(lastRun.input, groups[g - 1].group)
                        < firstSeen(lastRun.input, groups[g].group)
            /\ Len(P) = imagesBefore(groups, Len(groups) + 1)
            /\ \A g \in 1..Len(groups) :
                    LET from == imagesBefore(groups, g)
                        count == Len(groups[g].images)
                        flow == applyNaturalFlowLayout(groups[g].images, s)
                        top == groupTop(P, from, count)
                    IN  /\ Len(flow) = count
                        /\ \A k \in 1..count :
                                /\ P[from + k].imageData = flow[k].imageData
                                /\ P[from + k].x = flow[k].x
                                /\ P[from + k].width = flow[k].width
                                /\ P[from + k].height = flow[k].height
                                /\ RSub(P[from + k].y, top)
                                      = RSub(flow[k].y, groupTop(flow, 0, count))
                        /\ IF g = 1
                           THEN top = R(s.margin)
                           ELSE LET before == imagesBefore(groups, g - 1)
                                    bottom == groupBottom(P, before,
                                                  Len(groups[g - 1].images))
                                IN  /\ top = RAdd(bottom, R(2 * s.spacing))
                                    /\ RLe(bottom, top)

C23_Witness ==
    /\ lastRun # NoRun
    /\ lastRun.layout = "aspect-grouped"
    /\ LET groups == groupImagesByAspectRatio(lastRun.input)
       IN  /\ Len(groups) >= 3
           /\ Len(groups[1].images) >= 2
           /\ lastRun.settings.spacing = 100
           /\ Len(lastRun.positions) = Len(lastRun.input)

(***************************************************************************)
(* C24: the organic layout returns the masonry placements with the same    *)
(* length, image order, widths and heights; placement 0, and every         *)
(* placement when allowStacking is false, keeps the masonry x and y; every *)
(* other placement's x (y) either differs from the masonry value by at     *)
(* most spacing * 0.25 or equals one of the clamp bounds, margin or        *)
(* canvasWidth - width - margin (canvasHeight - height - margin).          *)
(***************************************************************************)
nearOrClamped(v, base, lo, hi, s) ==
    \/ RLe(RAbs(RSub(v, base)), Rat(s.spacing, 4))
    \/ v = lo
    \/ v = hi

C24_OrganicIsJitteredMasonry ==
    (lastRun # NoRun /\ lastRun.layout = "organic") =>
        LET s == lastRun.settings
            M == applyMasonryLayout(lastRun.input, s)
            P == lastRun.positions
        IN  /\ Len(P) = Len(M)
            /\ \A k \in 1..Len(P) :
                    /\ P[k].imageData = M[k].imageData
                    /\ P[k].width = M[k].width
                    /\ P[k].height = M[k].height
                    /\ IF k = 1 \/ ~s.allowStacking
                       THEN P[k].x = M[k].x /\ P[k].y = M[k].y
                       ELSE /\ nearOrClamped(P[k].x, M[k].x, R(s.margin),
                                    RSub(R(canvasWidth - s.margin), P[k].width), s)
                            /\ nearOrClamped(P[k].y, M[k].y, R(s.margin),
                                    RSub(R(canvasHeight - s.margin), P[k].height), s)

C24_Witness ==
    /\ lastRun # NoRun
    /\ lastRun.layout = "organic"
    /\ lastRun.settings.allowStacking
    /\ Len(lastRun.positions) = 3
    /\ LET M == applyMasonryLayout(lastRun.input, lastRun.settings)
           P == lastRun.positions
       IN  /\ P[2].x # M[2].x
           /\ P[2].x # R(lastRun.settings.margin)
           /\ P[3].x = R(lastRun.settings.margin)
           /\ P[3].y # M[3].y

(***************************************************************************)
(* C25: in the flow layout, when availableWidth > 0 and the images have    *)
(* positive dimensions, the natural widths of every finalized row plus its *)
(* spacings fit the available width, so the row's scale factor             *)
(* max(maxScaleDown, min(1, ...)) is exactly 1 and the value of            *)
(* maxScaleDown does not change the output.                                *)
(***************************************************************************)
rowFits(rowImages, availableWidth, s) ==
    RLe(RAdd(sumNaturalWidth(rowImages, Len(rowImages)),
             R((Len(rowImages) - 1) * s.spacing)),
        availableWidth)

positiveImages(imageList) ==
    \A i \in 1..Len(imageList) :
        imageList[i].originalWidth > 0 /\ imageList[i].originalHeight > 0

ScaleDownValues == {<<1, 10>>, <<3, 10>>, <<1, 1>>}

C25_ScaleFactorIsOne ==
    (/\ lastRun # NoRun
     /\ lastRun.layout = "natural-flow"
     /\ canvasWidth - 2 * lastRun.settings.margin > 0
     /\ positiveImages(lastRun.input)) =>
        LET s == lastRun.settings
            availableWidth == R(canvasWidth - 2 * s.margin)
            rows == flowRun(lastRun.input, s).rows
        IN  /\ \A r \in 1..Len(rows) :
                    /\ rowFits(rows[r], availableWidth, s)
                    /\ rowScaleFactor(rows[r], availableWidth, s) = R(1)
            /\ \A v \in ScaleDownValues :
                    applyNaturalFlowLayout(lastRun.input, [s EXCEPT !.maxScaleDown = v])
                        = lastRun.positions

\* a run with a row filled exactly and a second row, at maxScaleDown 0.3
C25_Witness ==
    /\ lastRun # NoRun
    /\ lastRun.layout = "natural-flow"
    /\ lastRun.settings.maxScaleDown = <<3, 10>>
    /\ LET s == lastRun.settings
           rows == flowRun(lastRun.input, s).rows
       IN  /\ Len(rows) = 2
           /\ Len(rows[1]) = 3
           /\ RAdd(sumNaturalWidth(rows[1], 3), R(2 * s.spacing))
                 = R(canvasWidth - 2 * s.margin)

(***************************************************************************)
(* C26: a deferred application (quick button, 800 ms; advanced apply       *)
(* button, 1000 ms) computes the placements from the selection, the        *)
(* settings, the image list and the current layout name as they are when   *)
(* the timer fires, not as they were at the click; when the selection has  *)
(* become empty by then, the firing leaves the canvas elements and the     *)
(* history unchanged.                                                      *)
(***************************************************************************)
timerFires == Len(timers') < Len(timers)

firedLayout == IF timers[1].kind = "quick" THEN timers[1].layout ELSE currentLayout

placementsAtFire ==
    /\ lastRun' # NoRun
    /\ lastRun'.layout = firedLayout
    /\ currentLayout' = firedLayout
    /\ lastRun'.input = selectedImageDataOf(images, selectedImages)
    /\ lastRun'.settings = autoFitSettings
    /\ \E rnd \in RandomDraws(firedLayout, Len(lastRun'.input), autoFitSettings) :
           lastRun'.positions = layoutPositions(firedLayout, lastRun'.input,
                                                autoFitSettings, rnd)

C26_DeferredReadsStateAtFire ==
    [][ timerFires =>
          IF selectedImages = {}
          THEN UNCHANGED << elements, historyLength, historyIndex >>
          ELSE placementsAtFire ]_vars

\* the timer has fired after the selection, the settings and the chosen
\* algorithm had changed since the click
C26_Witness ==
    /\ lastRun # NoRun
    /\ timers = <<>>
    /\ Len(lastRun.input) = 1
    /\ Len(images) = 2
    /\ lastRun.settings # DefaultSettings
    /\ lastRun.layout = "proportional-grid"
    /\ "masonry" \notin {lastRun.calls[k] : k \in 1..Len(lastRun.calls)}

(***************************************************************************)
(* C27: after any sequence of loads, select-all, select-none, toggles,     *)
(* deletions, bulk deletions, additions to the canvas, bulk additions and  *)
(* auto-fit applications, the ids of the images are pairwise distinct,     *)
(* every selected id is the id of an image of the list, and every image    *)
(* element of the canvas refers to an image still in the list.             *)
(***************************************************************************)
C27_IdsSelectionAndElementsConsistent ==
    /\ \A i \in 1..Len(images) : \A j \in 1..Len(images) :
           i # j => images[i].id # images[j].id
    /\ \A id \in selectedImages : \E i \in 1..Len(images) : images[i].id = id
    /\ \A k \in 1..Len(elements) :
           elements[k].type = "image" =>
               \E i \in 1..Len(images) : images[i].id = elements[k].imageId

\* an image was deleted after elements had been put on the canvas; elements
\* of another image remain and an image is selected
C27_Witness ==
    /\ Len(images) < currentImageId
    /\ historyLength = 3
    /\ elements # <<>>
    /\ selectedImages # {}
    /\ images # <<>> /\ images[1].id # 1

(***************************************************************************)
(* C28: applying a layout replaces and does not accumulate: after an       *)
(* auto-fit application every selected image has exactly one image element *)
(* on the canvas, with the new rectangle; every element of a non-selected  *)
(* image is unchanged and these keep their relative order; exactly one     *)
(* history snapshot is appended.                                           *)
(***************************************************************************)
elementsOf(els, id) == {k \in 1..Len(els) : els[k].type = "image" /\ els[k].imageId = id}

elementsNotOf(els, selected) ==
    filterKeep(els, {k \in 1..Len(els) : els[k].type # "image" \/ els[k].imageId \notin selected})

hasRectangleOf(element, positions) ==
    \E p \in 1..Len(positions) :
        /\ positions[p].imageData.id = element.imageId
        /\ element.x = positions[p].x
        /\ element.y = positions[p].y
        /\ element.width = positions[p].width
        /\ element.height = positions[p].height

C28_ApplicationReplaces ==
    [][ (timerFires /\ selectedImages # {}) =>
          /\ lastRun' # NoRun
          /\ \A id \in selectedImages :
                 /\ Cardinality(elementsOf(elements', id)) = 1
                 /\ \A k \in elementsOf(elements', id) :
                        hasRectangleOf(elements'[k], lastRun'.applied)
          /\ elementsNotOf(elements', selectedImages) = elementsNotOf(elements, selectedImages)
          /\ historyLength' = historyLength + 1 ]_vars

\* the layout was applied to image 2 alone after the three images had been
\* added to the canvas together: the element of image 2 was replaced, those
\* of images 1 and 3 were kept in their order
C28_Witness ==
    /\ lastRun # NoRun
    /\ selectedImages = {2}
    /\ Len(elements) = 3
    /\ elements[1].imageId = 1
    /\ elements[2].imageId = 3
    /\ elements[2].x = R(400)
    /\ elements[3].imageId = 2
    /\ historyLength = 3

====
